---- MODULE Spec2Model ----
(***************************************************************************)
(* State-machine model of nvpro-samples/dx12_present_barrier:              *)
(* RenderThread (src/RenderThread.cpp, src/RenderThread.h) driven by the   *)
(* control thread of Sample (src/main.cpp).                                *)
(*                                                                         *)
(* Two threads: the control thread (cpc) calling the public API and the    *)
(* render thread (rpc) running the lambda of RenderThread::start.  The     *)
(* GPU is a third party that completes the fence signals queued on the     *)
(* command queue, one after the other.                                     *)
(*                                                                         *)
(*   rt   the members of RenderThread (m_...)                              *)
(*   gpu  what lives behind the D3D12/DXGI/NVAPI/Win32 handles: the frame  *)
(*        fence, the auto-reset event m_syncEvt, the swap chain, the       *)
(*        window, plus history of what was presented                       *)
(*   loc  locals and return values of the calls in progress               *)
(*                                                                         *)
(* Pixel content, the ImGui overlay, the frame counter used for the line   *)
(* animation and SendInput are external collaborators and not modelled.    *)
(***************************************************************************)
EXTENDS Integers, Sequences, FiniteSets, TLC

\* Number of back buffers of the swap chain (swapChainDesc.BufferCount); the
\* macro comes from nvdx12/base_dx12.hpp of nvpro_core.
D3D12_SWAP_CHAIN_SIZE == 3

\* Bound of the model: the render thread presents at most this many frames.
MaxFrames == 4

\* Largest frame index presented with the present barrier disabled
\* (DisabledSpec).
MaxDisabledFrames == 3

\* Largest frame index presented in the runs that follow both mutexes
\* (LockSpec).
MaxLockFrames == 1

\* Largest number of execution nodes of the device considered.
MaxNodes == 4

VARIABLES rt, gpu, loc, rpc, cpc, mutex

vars == <<rt, gpu, loc, rpc, cpc, mutex>>

Slots == 1..D3D12_SWAP_CHAIN_SIZE

\* The world the member functions operate on.
W == [rt |-> rt, gpu |-> gpu, loc |-> loc]

----------------------------------------------------------------------------
(* Configuration values start() may be given.                              *)

\* 32-bit integers are kept as two 16-bit halves, value = hi * Half + lo with
\* lo in 0 .. Half - 1: an unsigned one has hi in 0 .. Half - 1, a signed one
\* hi in -Half \div 2 .. Half \div 2 - 1, and a mathematical integer any hi.
Half == 65536

Wide(hi, lo) == [hi |-> hi, lo |-> lo]

\* The mathematical sum.
WideAdd(a, b) ==
  LET l == a.lo + b.lo
  IN Wide(a.hi + b.hi + (l \div Half), l % Half)

\* Conversion to std::uint32_t: the value modulo 2^32.
ToUint32(a) == Wide(a.hi % Half, a.lo)

\* Conversion to std::int32_t: the value modulo 2^32, taken as two's
\* complement.
ToInt32(a) ==
  LET u == ToUint32(a)
  IN IF u.hi >= Half \div 2 THEN Wide(u.hi - Half, u.lo) ELSE u

\* Values of m_sleepIntervalInMilliseconds handed to setSleepInterval: 0, 1,
\* 2, 65535, 65536, 2^31 - 1, 2^31, 2^31 + 1, 3 * 2^30, 2^32 - 2, 2^32 - 1.
SleepIntervals ==
  {Wide(0, 0), Wide(0, 1), Wide(0, 2), Wide(0, Half - 1), Wide(1, 0),
   Wide(Half \div 2 - 1, Half - 1), Wide(Half \div 2, 0), Wide(Half \div 2, 1),
   Wide(3 * (Half \div 4), 0), Wide(Half - 1, Half - 2), Wide(Half - 1, Half - 1)}

\* Values of deltaMillis: -2^31, -2^31 + 1, -65536, -2, -1, 0, 1, 2, 2^30,
\* 2^31 - 1.
SleepDeltas ==
  {Wide(-(Half \div 2), 0), Wide(-(Half \div 2), 1), Wide(-1, 0),
   Wide(-1, Half - 2), Wide(-1, Half - 1), Wide(0, 0), Wide(0, 1), Wide(0, 2),
   Wide(Half \div 4, 0), Wide(Half \div 2 - 1, Half - 1)}

\* Calls of setSleepInterval and changeSleepInterval followed.
MaxSleepCalls == 4

TestModes == {"n", "f", "b", "i", "x"}
StartupDisplayModes == {"b", "borderless", "f", "fullscreen", "w", "windowed", "x"}
TestModeIntervals == {0, 1, 2, 120}
OutputIndices == {-1, 0}

AllConfigs ==
  [m_startupDisplayMode : StartupDisplayModes,
   m_testMode : TestModes,
   m_testModeInterval : TestModeIntervals,
   m_disablePresentBarrier : BOOLEAN,
   m_stereo : {FALSE},
   m_sleepIntervalInMilliseconds : {Wide(0, 0)},
   m_outputIndex : OutputIndices]

\* Configurations of the runs explored in depth: no test mode, windowed or
\* fullscreen startup, output resolved through GetContainingOutput.
RunConfigs ==
  [m_startupDisplayMode : {"w", "f"},
   m_testMode : {"n"},
   m_testModeInterval : {120},
   m_disablePresentBarrier : BOOLEAN,
   m_stereo : {FALSE},
   m_sleepIntervalInMilliseconds : {Wide(0, 0)},
   m_outputIndex : {-1}]

\* Configuration() as declared in RenderThread.h.
DefaultConfig ==
  [m_startupDisplayMode |-> "b",
   m_testMode |-> "n",
   m_testModeInterval |-> 120,
   m_disablePresentBarrier |-> FALSE,
   m_stereo |-> FALSE,
   m_sleepIntervalInMilliseconds |-> Wide(0, 0),
   m_outputIndex |-> -1]

\* What the environment answers during init(): device creation, present
\* barrier support, shader files, ImGui.
InitEnvs ==
  [contextOk : BOOLEAN, pbSupported : BOOLEAN, shadersOk : BOOLEAN,
   outputOk : BOOLEAN, imguiOk : BOOLEAN]

----------------------------------------------------------------------------
(* Initial state: a constructed RenderThread, no thread, no GPU objects.   *)

InitRt ==
  [m_status |-> "CREATED",
   m_config |-> DefaultConfig,
   m_requestToggleStereo |-> FALSE,
   m_skipNextSwap |-> FALSE,
   m_frameIdx |-> 0,
   m_syncInterval |-> 0,
   m_swapChain |-> FALSE,
   m_allocatorFrameIndices |-> <<>>,
   m_presentBarrierClient |-> FALSE,
   m_displayMode |-> "WINDOWED",
   m_requestedDisplayMode |-> "WINDOWED",
   m_presentBarrierChangeRequested |-> FALSE,
   m_presentBarrierJoined |-> FALSE,
   m_presentBarrierFrameStats |-> 0]

\* The presentable images in alternate frame rendering, before the first
\* resize: images[i] is the node mask image i was created with,
\* nodeResources[n] the descriptor storage and command-issuing resources of
\* node n.
NoAfr ==
  [afr |-> FALSE,
   nodeCount |-> 1,
   size |-> "none",
   stereo |-> FALSE,
   images |-> <<>>,
   current |-> 0,
   nodeResources |-> [n \in 0..(MaxNodes - 1) |-> {}],
   nextId |-> 0]

InitGpu ==
  [completed |-> 0,            \* m_frameFence->GetCompletedValue()
   lastSignalled |-> 0,        \* last value queued with Signal(m_frameFence, .)
   queue |-> <<>>,             \* m_commandQueue: commands not yet executed
   guiCompleted |-> 0,         \* m_guiFence->GetCompletedValue()
   guiSignalled |-> 0,         \* last value queued with Signal(m_guiFence, .)
   syncEvt |-> FALSE,          \* m_syncEvt is signalled
   evtRegs |-> {},             \* fence values m_syncEvt is registered for
   backBufferIndex |-> 0,      \* m_swapChain->GetCurrentBackBufferIndex()
   fullscreen |-> FALSE,       \* m_swapChain->GetFullscreenState()
   size |-> "none",            \* swap chain width x height
   resources |-> {},           \* GPU objects created so far
   pbIssued |-> FALSE,         \* a present barrier call of NVAPI was issued
   presented |-> <<>>,         \* frame index of every Present call, in order
   presentInterval |-> 0,      \* SyncInterval the last Present call was given
   touchDrained |-> TRUE,      \* the last surface change saw completed = m_frameIdx
   reuseSafe |-> TRUE,         \* the last allocator reset saw its slot's frame completed
   windowMutex |-> "free",      \* Sample::m_mutex: "free", or "control" inside Sample::think
   decorated |-> TRUE,         \* window decoration requested from the owner
   geometry |-> "initial",     \* window position and size requested from the owner
   afr |-> NoAfr]              \* presentable images and their nodes

\* Swap chain sizes: that of the window's client area, that of the desktop.
Sizes == {"window", "desktop"}

\* Parameters of a swapResize call (width x height as one size).
ResizeArgs == [size : Sizes, stereo : BOOLEAN, force : BOOLEAN]

NoResizeArgs == [size |-> "none", stereo |-> FALSE, force |-> FALSE]

InitLoc ==
  [waitForFrameIdx |-> 0,      \* renderFrame
   displayMode |-> "WINDOWED", \* trySetDisplayMode's parameter
   outputUnresolved |-> FALSE, \* the last trySetDisplayMode returned because
                               \* GetContainingOutput failed
   before |-> FALSE,           \* swapBuffers
   drainLeft |-> FALSE,        \* the sync() of the last servicing of a barrier
                               \* change forced a leave
   ackForced |-> FALSE,        \* the last servicing of a barrier change
                               \* called forcePresentBarrierChange
   timedOutJoined |-> FALSE,   \* a fence wait timed out while joined and the
                               \* present barrier has not been left since
   syncWaits |-> 0,            \* fence waits of the sync() call in progress
   skipped |-> [slot |-> 0, value |-> 0],
                               \* back buffer index and fence value of the
                               \* renderFrame wait that timed out last
   initResult |-> FALSE,       \* what init() returned, once it has
   startResult |-> FALSE,      \* what start() returned, once it has
   reqWaited |-> FALSE,        \* requestPresentBarrierChange: maxWaitMillis > 0
   reqServiced |-> FALSE,      \* the render thread cleared the request flag
   reqWake |-> "none",         \* why wait_for woke up
   reqResult |-> FALSE,        \* what requestPresentBarrierChange returned,
                               \* once it has
   resizeArgs |-> NoResizeArgs, \* swapResize's parameters
   resizeEarly |-> FALSE,      \* swapResize returned before its sync()
   sleepCalls |-> 0]           \* calls of setSleepInterval and changeSleepInterval

Init ==
  /\ rt = InitRt
  /\ gpu = InitGpu
  /\ loc = InitLoc
  /\ rpc = "none"
  /\ cpc = "created"
  /\ mutex = "free"

----------------------------------------------------------------------------
(* Win32 / D3D12 primitives on the frame fence and m_syncEvt.              *)

\* A command of m_commandQueue: Wait(fence, value), Signal(fence, value),
\* or ExecuteCommandLists of one command list, value being the number of the
\* frame it was recorded for.
Cmd(op, on, value) == [op |-> op, on |-> on, value |-> value]

\* ID3D12Fence::SetEventOnCompletion(value, m_syncEvt): the event is set at
\* once when the fence has already reached value, else when it reaches it.
SetEventOnCompletion(w, value) ==
  IF w.gpu.completed >= value
  THEN [w EXCEPT !.gpu.syncEvt = TRUE]
  ELSE [w EXCEPT !.gpu.evtRegs = @ \cup {value}]

\* Variant of WaitOutcomes: WaitForSingleObject(m_syncEvt, INFINITE).
WaitOutcomesInfinite(evt) == IF evt THEN {"signaled"} ELSE {}

\* WaitForSingleObject(m_syncEvt, m_config.m_syncTimeoutMillis) may return
\* WAIT_OBJECT_0 when the event is signalled, and WAIT_TIMEOUT when the
\* timeout elapses without it.
WaitOutcomes(evt) == IF evt THEN {"signaled"} ELSE {"timeout"}

\* A wait that returned WAIT_OBJECT_0 resets the auto-reset event
\* (CreateEventA(NULL, FALSE, FALSE, ...)).
ConsumeEvent(w) == [w EXCEPT !.gpu.syncEvt = FALSE]

\* std::condition_variable::notify_all as seen by the wait_for of
\* requestPresentBarrierChange.
NotifyAll(w) ==
  IF w.loc.reqWake = "waiting" THEN [w EXCEPT !.loc.reqWake = "notified"] ELSE w

\* A surface operation (resize, recreation, fullscreen switch) records
\* whether the GPU was drained when it ran.
Touch(w) == [w EXCEPT !.gpu.touchDrained = (w.gpu.completed = w.rt.m_frameIdx)]

----------------------------------------------------------------------------
(* Member functions of RenderThread, as functions on the world.            *)

setStatus(w, newStatus) ==
  IF w.rt.m_status # newStatus
  THEN NotifyAll([w EXCEPT !.rt.m_status = newStatus])
  ELSE w

\* Variant of forcePresentBarrierChange: a directed join, nothing to do when
\* already joined.
forcePresentBarrierJoinOnly(w) ==
  IF ~w.rt.m_config.m_disablePresentBarrier
  THEN [w EXCEPT !.rt.m_presentBarrierJoined = TRUE, !.gpu.pbIssued = TRUE]
  ELSE w

\* Variant of forcePresentBarrierChange: a directed leave, nothing to do when
\* not joined.
forcePresentBarrierLeaveOnly(w) ==
  IF ~w.rt.m_config.m_disablePresentBarrier
  THEN [w EXCEPT !.rt.m_presentBarrierJoined = FALSE, !.gpu.pbIssued = TRUE]
  ELSE w

forcePresentBarrierChange(w) ==
  IF ~w.rt.m_config.m_disablePresentBarrier
  THEN [w EXCEPT !.rt.m_presentBarrierJoined = ~w.rt.m_presentBarrierJoined,
                 !.gpu.pbIssued = TRUE,
                 !.loc.timedOutJoined = @ /\ ~w.rt.m_presentBarrierJoined]
  ELSE w

releasePresentBarrier(w) ==
  IF ~w.rt.m_config.m_disablePresentBarrier /\ w.rt.m_presentBarrierClient
  THEN [w EXCEPT !.rt.m_presentBarrierJoined = FALSE,
                 !.rt.m_presentBarrierClient = FALSE,
                 !.gpu.pbIssued = TRUE,
                 !.loc.timedOutJoined = FALSE]
  ELSE w

\* sync() up to its WaitForSingleObject: wait = FALSE when it returned true
\* without waiting.
SyncEnter(w) ==
  IF w.gpu.completed = w.rt.m_frameIdx
  THEN [w |-> [w EXCEPT !.loc.syncWaits = 0], wait |-> FALSE]
  ELSE [w |-> [SetEventOnCompletion(w, w.rt.m_frameIdx)
                 EXCEPT !.loc.syncWaits = @ + 1],
        wait |-> TRUE]

\* sync() from the return of its WaitForSingleObject: wait = TRUE when the
\* recursive call `return sync()` reached its own wait.
SyncAfterWait(w, outcome) ==
  IF outcome = "signaled"
  THEN [w |-> [ConsumeEvent(w) EXCEPT !.loc.syncWaits = 0], wait |-> FALSE]
  ELSE IF w.rt.m_presentBarrierJoined
       THEN SyncEnter(forcePresentBarrierChange([w EXCEPT !.loc.timedOutJoined = TRUE]))
       ELSE [w |-> [w EXCEPT !.loc.syncWaits = 0], wait |-> FALSE]

\* Variant of SwapResizeUnchanged: the early return is missing.
SwapResizeNeverUnchanged(w, size, stereo, force) == FALSE

\* swapResize: the early return for an unchanged swap chain.
SwapResizeUnchanged(w, size, stereo, force) ==
  /\ ~force
  /\ w.rt.m_swapChain
  /\ size = w.gpu.size
  /\ stereo = w.rt.m_config.m_stereo

\* swapResize up to the wait of its sync(): done = TRUE when it returned at
\* once for an unchanged swap chain, wait = TRUE when sync() waits.
SwapResizeEnter(w, size, stereo, force) ==
  IF SwapResizeUnchanged(w, size, stereo, force)
  THEN [w |-> w, wait |-> FALSE, done |-> TRUE]
  ELSE LET r == SyncEnter(w) IN [w |-> r.w, wait |-> r.wait, done |-> FALSE]

\* Variant of SwapResizeBody: the present barrier client is created and the
\* back buffers are registered without looking at m_disablePresentBarrier.
SwapResizeBodyUnguarded(w, size, stereo) ==
  LET t == Touch(w)
  IN IF ~t.rt.m_swapChain \/ stereo # t.rt.m_config.m_stereo
     THEN [t EXCEPT !.rt.m_swapChain = TRUE,
                    !.rt.m_config.m_stereo = stereo,
                    !.rt.m_presentBarrierJoined = FALSE,
                    !.rt.m_presentBarrierClient = TRUE,
                    !.gpu.backBufferIndex = 0,
                    !.gpu.fullscreen = FALSE,
                    !.gpu.size = size,
                    !.gpu.resources = @ \cup {"swapchain"},
                    !.gpu.pbIssued = TRUE]
     ELSE [t EXCEPT !.gpu.backBufferIndex = 0, !.gpu.size = size,
                    !.gpu.pbIssued = TRUE]

\* swapResize after its sync(): release the back buffers, recreate the swap
\* chain (first call or stereo changed) or resize it in place, fetch the
\* back buffers and register them with the present barrier client.
SwapResizeBody(w, size, stereo) ==
  LET t == Touch(w)
      b == IF ~t.rt.m_swapChain \/ stereo # t.rt.m_config.m_stereo
           THEN LET c == [t EXCEPT !.rt.m_swapChain = TRUE,
                                   !.rt.m_config.m_stereo = stereo,
                                   !.gpu.backBufferIndex = 0,
                                   !.gpu.fullscreen = FALSE,
                                   !.gpu.size = size,
                                   !.gpu.resources = @ \cup {"swapchain"}]
                IN IF ~c.rt.m_config.m_disablePresentBarrier
                   THEN [releasePresentBarrier(c)
                           EXCEPT !.rt.m_presentBarrierClient = TRUE]
                   ELSE c
           ELSE [t EXCEPT !.gpu.backBufferIndex = 0, !.gpu.size = size]
  IN IF ~b.rt.m_config.m_disablePresentBarrier
     THEN [b EXCEPT !.gpu.pbIssued = TRUE]
     ELSE b

\* Width and height trySetDisplayMode asks for in each mode.
ModeSize(displayMode) == IF displayMode = "WINDOWED" THEN "window" ELSE "desktop"

\* trySetDisplayMode, end: the back buffers follow the new mode.
TsdmAfterSync2(w) ==
  [w |-> [SwapResizeBody(w, ModeSize(w.loc.displayMode), w.rt.m_config.m_stereo)
            EXCEPT !.loc.displayMode = InitLoc.displayMode],
   block |-> "done"]

\* trySetDisplayMode after its sync(): switch the swap chain or the window,
\* record the mode, then swapResize(..., force = true) up to its sync().
TsdmAfterSync1(w) ==
  LET dm == w.loc.displayMode
      a == IF dm = "FULLSCREEN"
           THEN [Touch(w) EXCEPT !.gpu.fullscreen = TRUE]
           ELSE LET l == IF w.rt.m_displayMode = "FULLSCREEN"
                         THEN [Touch(w) EXCEPT !.gpu.fullscreen = FALSE]
                         ELSE w
                IN [l EXCEPT !.gpu.decorated = (dm = "WINDOWED"),
                             !.gpu.geometry = IF dm = "BORDERLESS"
                                              THEN "output_origin"
                                              ELSE "output_offset"]
      b == [a EXCEPT !.rt.m_displayMode = dm, !.rt.m_requestedDisplayMode = dm]
      r == SyncEnter(b)
  IN IF r.wait THEN [w |-> r.w, block |-> "sync2"] ELSE TsdmAfterSync2(r.w)

\* Variant of TsdmStart: the test displayMode == m_displayMode is missing,
\* every call goes on to the output and to sync().
TsdmStartAlways(w, displayMode, outputOk) ==
  LET dm == IF w.gpu.fullscreen # (w.rt.m_displayMode = "FULLSCREEN")
            THEN "WINDOWED"
            ELSE displayMode
  IN IF w.rt.m_config.m_outputIndex = -1 /\ ~outputOk
     THEN [w |-> [w EXCEPT !.loc.outputUnresolved = TRUE], block |-> "done"]
     ELSE LET r == SyncEnter([w EXCEPT !.loc.displayMode = dm,
                                       !.loc.outputUnresolved = FALSE])
          IN IF r.wait
             THEN [w |-> r.w, block |-> "sync1"]
             ELSE TsdmAfterSync1(r.w)

\* Variant of TsdmStart: the requested mode is taken as it is, the
\* comparison of GetFullscreenState with m_displayMode is missing.
TsdmStartAsRequested(w, displayMode, outputOk) ==
  IF displayMode = w.rt.m_displayMode
  THEN [w |-> [w EXCEPT !.loc.outputUnresolved = FALSE], block |-> "done"]
  ELSE IF w.rt.m_config.m_outputIndex = -1 /\ ~outputOk
       THEN [w |-> [w EXCEPT !.loc.outputUnresolved = TRUE], block |-> "done"]
       ELSE LET r == SyncEnter([w EXCEPT !.loc.displayMode = displayMode,
                                         !.loc.outputUnresolved = FALSE])
            IN IF r.wait
               THEN [w |-> r.w, block |-> "sync1"]
               ELSE TsdmAfterSync1(r.w)

\* trySetDisplayMode(displayMode) up to its sync(); outputOk is whether
\* GetContainingOutput succeeds.  block = "done" when it returned.
TsdmStart(w, displayMode, outputOk) ==
  LET dm == IF w.gpu.fullscreen # (w.rt.m_displayMode = "FULLSCREEN")
            THEN "WINDOWED"
            ELSE displayMode
  IN IF dm = w.rt.m_displayMode
     THEN [w |-> [w EXCEPT !.loc.outputUnresolved = FALSE], block |-> "done"]
     ELSE IF w.rt.m_config.m_outputIndex = -1 /\ ~outputOk
          THEN [w |-> [w EXCEPT !.loc.outputUnresolved = TRUE], block |-> "done"]
          ELSE LET r == SyncEnter([w EXCEPT !.loc.displayMode = dm,
                                            !.loc.outputUnresolved = FALSE])
               IN IF r.wait
                  THEN [w |-> r.w, block |-> "sync1"]
                  ELSE TsdmAfterSync1(r.w)

\* trySetDisplayMode resumed when the wait of one of its two sync() calls
\* returns.
TsdmOnWait(w, block, outcome) ==
  LET r == SyncAfterWait(w, outcome)
  IN IF r.wait
     THEN [w |-> r.w, block |-> block]
     ELSE IF block = "sync1" THEN TsdmAfterSync1(r.w) ELSE TsdmAfterSync2(r.w)

----------------------------------------------------------------------------
(* init(), run by the render thread under the mutex.                       *)

InitFailed(w) == [w |-> w, ok |-> FALSE]

Created(w, what) == [w EXCEPT !.gpu.resources = @ \cup what]

\* init from the swap chain on: the device and the fences exist.
InitFromSwapChain(w, env) ==
  LET cfg == w.rt.m_config
      sc == SwapResizeBody(SyncEnter(w).w, "window", cfg.m_stereo)
  IN IF ~env.shadersOk
     THEN InitFailed(sc)
     ELSE LET al == [Created(sc, {"allocators", "pipelines"})
                       EXCEPT !.rt.m_allocatorFrameIndices = [s \in Slots |-> 0]]
          IN IF cfg.m_startupDisplayMode \notin
                  {"b", "borderless", "f", "fullscreen", "w", "windowed"}
             THEN InitFailed(al)
             ELSE LET dm == IF cfg.m_startupDisplayMode \in {"b", "borderless"}
                            THEN TsdmStart(al, "BORDERLESS", env.outputOk).w
                            ELSE IF cfg.m_startupDisplayMode \in {"f", "fullscreen"}
                                 THEN TsdmStart(al, "FULLSCREEN", env.outputOk).w
                                 ELSE al
                      pb == forcePresentBarrierChange(dm)
                  IN IF ~env.imguiOk
                     THEN InitFailed(pb)
                     ELSE [w |-> Created(pb, {"imgui"}), ok |-> TRUE]

init(w, env) ==
  LET cfg == w.rt.m_config
  IN IF cfg.m_testMode = "f" /\ cfg.m_startupDisplayMode = "b"
     THEN InitFailed(w)
     ELSE IF cfg.m_testMode = "b" /\ cfg.m_startupDisplayMode = "f"
     THEN InitFailed(w)
     ELSE IF cfg.m_testMode \notin {"n", "f", "b", "i"}
     THEN InitFailed(w)
     ELSE IF cfg.m_testModeInterval <= 1
     THEN InitFailed(w)
     ELSE IF ~env.contextOk
     THEN InitFailed(w)
     ELSE LET dev == Created(w, {"device"})
          IN IF ~cfg.m_disablePresentBarrier /\ ~env.pbSupported
             THEN InitFailed(dev)
             ELSE InitFromSwapChain(Created(dev, {"fences", "event", "heaps"}), env)

\* end(): everything is released.
end(w) ==
  [releasePresentBarrier(w) EXCEPT !.rt.m_swapChain = FALSE,
                                   !.gpu.resources = {},
                                   !.gpu.evtRegs = {},
                                   !.gpu.syncEvt = FALSE]

----------------------------------------------------------------------------
(* renderFrame and swapBuffers.                                            *)

CurrentSlot(w) == w.gpu.backBufferIndex + 1

\* renderFrame up to WaitForSingleObject: the fence value the current slot
\* waits for, and the registration of m_syncEvt for it.
RenderFrameBegin(w) ==
  LET waitForFrameIdx == w.rt.m_allocatorFrameIndices[CurrentSlot(w)]
  IN IF w.gpu.completed < waitForFrameIdx
     THEN [w |-> [(IF ~w.rt.m_skipNextSwap
                   THEN SetEventOnCompletion(w, waitForFrameIdx)
                   ELSE w) EXCEPT !.loc.waitForFrameIdx = waitForFrameIdx],
           pc |-> "rf_wait"]
     ELSE [w |-> w, pc |-> "rf_record"]

\* The switch on the result of WaitForSingleObject.
RenderFrameAfterWait(w, outcome) ==
  IF outcome = "signaled"
  THEN [w |-> [ConsumeEvent(w) EXCEPT !.loc.waitForFrameIdx = 0], pc |-> "rf_record"]
  ELSE [w |-> [w EXCEPT !.rt.m_skipNextSwap = TRUE, !.loc.waitForFrameIdx = 0,
                        !.loc.timedOutJoined = @ \/ w.rt.m_presentBarrierJoined,
                        !.loc.skipped = [slot |-> w.gpu.backBufferIndex,
                                         value |-> w.loc.waitForFrameIdx]],
        pc |-> "swapBuffers"]

\* renderFrame from m_skipNextSwap = false on: the command allocators of the
\* current slot are reset and the frame is recorded and submitted.
\* Variant of RenderFrameSubmitLists: the main command list is executed
\* first, without waiting for the overlay fence.
RenderFrameSubmitMainFirst(w) ==
  LET f == w.rt.m_frameIdx
  IN [w EXCEPT !.gpu.queue = @ \o <<Cmd("Execute", "m_graphicsCommandList", f + 1),
                                    Cmd("Wait", "m_frameFence", f),
                                    Cmd("Execute", "m_guiCommandList", f + 1),
                                    Cmd("Signal", "m_guiFence", f + 1)>>,
               !.gpu.guiSignalled = f + 1]

\* renderFrame, "Finish recording and execute command lists": what it puts
\* on the command queue.
RenderFrameSubmitLists(w) ==
  LET f == w.rt.m_frameIdx
  IN [w EXCEPT !.gpu.queue = @ \o <<Cmd("Wait", "m_frameFence", f),
                                    Cmd("Execute", "m_guiCommandList", f + 1),
                                    Cmd("Signal", "m_guiFence", f + 1),
                                    Cmd("Wait", "m_guiFence", f + 1),
                                    Cmd("Execute", "m_graphicsCommandList", f + 1)>>,
               !.gpu.guiSignalled = f + 1]

\* swapBuffers: what the block under if(!m_skipNextSwap) puts on the command
\* queue, w being the world after the block.
SwapBuffersSignal(skip, w) ==
  IF skip
  THEN w
  ELSE [w EXCEPT !.gpu.queue = Append(@, Cmd("Signal", "m_frameFence", w.rt.m_frameIdx))]

RenderFrameRecord(w) ==
  [w EXCEPT !.rt.m_skipNextSwap = FALSE,
            !.loc.skipped = InitLoc.skipped,
            !.gpu.reuseSafe =
               (w.gpu.completed >= w.rt.m_allocatorFrameIndices[CurrentSlot(w)])]

\* Variant of SwapBuffersFrame: m_frameIdx++ in place of ++m_frameIdx, the
\* slot keeps the previous index.
SwapBuffersFramePostIncrement(w) ==
  IF w.rt.m_skipNextSwap
  THEN w
  ELSE LET idx == w.rt.m_frameIdx + 1
           stats == ~w.rt.m_config.m_disablePresentBarrier /\ w.rt.m_presentBarrierJoined
       IN [w EXCEPT !.rt.m_frameIdx = idx,
                    !.rt.m_allocatorFrameIndices[CurrentSlot(w)] = idx - 1,
                    !.gpu.backBufferIndex = (@ + 1) % D3D12_SWAP_CHAIN_SIZE,
                    !.gpu.presented = Append(@, idx),
                    !.gpu.presentInterval = w.rt.m_syncInterval,
                    !.gpu.lastSignalled = idx,
                    !.rt.m_presentBarrierFrameStats = IF stats THEN idx ELSE @,
                    !.gpu.pbIssued = @ \/ stats]

\* Variant of SwapBuffersFrame: the test of m_skipNextSwap is missing.
SwapBuffersFrameNoSkip(w) ==
  LET idx == w.rt.m_frameIdx + 1
      stats == ~w.rt.m_config.m_disablePresentBarrier /\ w.rt.m_presentBarrierJoined
  IN [w EXCEPT !.rt.m_frameIdx = idx,
               !.rt.m_allocatorFrameIndices[CurrentSlot(w)] = idx,
               !.gpu.backBufferIndex = (@ + 1) % D3D12_SWAP_CHAIN_SIZE,
               !.gpu.presented = Append(@, idx),
               !.gpu.presentInterval = w.rt.m_syncInterval,
               !.gpu.lastSignalled = idx,
               !.rt.m_presentBarrierFrameStats = IF stats THEN idx ELSE @,
                    !.gpu.pbIssued = @ \/ stats]

\* Variant of SwapBuffersFrame: the statistics are queried for every
\* presented frame, joined or not.
SwapBuffersFrameAlwaysStats(w) ==
  IF w.rt.m_skipNextSwap
  THEN w
  ELSE LET idx == w.rt.m_frameIdx + 1
       IN [w EXCEPT !.rt.m_frameIdx = idx,
                    !.rt.m_allocatorFrameIndices[CurrentSlot(w)] = idx,
                    !.gpu.backBufferIndex = (@ + 1) % D3D12_SWAP_CHAIN_SIZE,
                    !.gpu.presented = Append(@, idx),
                    !.gpu.presentInterval = w.rt.m_syncInterval,
                    !.gpu.lastSignalled = idx,
                    !.rt.m_presentBarrierFrameStats = idx,
                    !.gpu.pbIssued = TRUE]

\* swapBuffers, the block under if(!m_skipNextSwap) up to the lock_guard.
SwapBuffersFrame(w) ==
  IF w.rt.m_skipNextSwap
  THEN w
  ELSE LET idx == w.rt.m_frameIdx + 1
           stats == ~w.rt.m_config.m_disablePresentBarrier /\ w.rt.m_presentBarrierJoined
       IN [w EXCEPT !.rt.m_frameIdx = idx,
                    !.rt.m_allocatorFrameIndices[CurrentSlot(w)] = idx,
                    !.gpu.backBufferIndex = (@ + 1) % D3D12_SWAP_CHAIN_SIZE,
                    !.gpu.presented = Append(@, idx),
                    !.gpu.presentInterval = w.rt.m_syncInterval,
                    !.gpu.lastSignalled = idx,
                    !.rt.m_presentBarrierFrameStats = IF stats THEN idx ELSE @,
                    !.gpu.pbIssued = @ \/ stats]

\* swapBuffers, servicing of the pending present barrier change after its
\* sync().
SwapBuffersAck(w) ==
  LET f == IF w.loc.before = w.rt.m_presentBarrierJoined
           THEN forcePresentBarrierChange(w)
           ELSE w
  IN [w |-> NotifyAll([f EXCEPT !.rt.m_presentBarrierChangeRequested = FALSE,
                                !.loc.reqServiced = TRUE,
                                !.loc.ackForced = (w.loc.before = w.rt.m_presentBarrierJoined),
                                !.loc.before = FALSE]),
      pc |-> "loop"]

\* Variant of SwapBuffersRequests: what trySetDisplayMode returned is not
\* assigned to m_requestedDisplayMode.
SwapBuffersRequestsKept(w) ==
  IF w.rt.m_presentBarrierChangeRequested
  THEN LET r == SyncEnter([w EXCEPT !.loc.before = w.rt.m_presentBarrierJoined])
       IN IF r.wait THEN [w |-> r.w, pc |-> "sb_req_wait"] ELSE SwapBuffersAck(r.w)
  ELSE [w |-> w, pc |-> "loop"]

\* Variant of SwapBuffersRequests: an iteration that skipped its frame does
\* not look at the pending present barrier change.
SwapBuffersRequestsUnlessSkipped(w) ==
  LET m == [w EXCEPT !.rt.m_requestedDisplayMode = w.rt.m_displayMode]
  IN IF m.rt.m_presentBarrierChangeRequested /\ ~m.rt.m_skipNextSwap
     THEN LET r == SyncEnter([m EXCEPT !.loc.before = m.rt.m_presentBarrierJoined])
          IN IF r.wait THEN [w |-> r.w, pc |-> "sb_req_wait"] ELSE SwapBuffersAck(r.w)
     ELSE [w |-> m, pc |-> "loop"]

\* swapBuffers after trySetDisplayMode returned.
SwapBuffersRequests(w) ==
  LET m == [w EXCEPT !.rt.m_requestedDisplayMode = w.rt.m_displayMode]
  IN IF m.rt.m_presentBarrierChangeRequested
     THEN LET r == SyncEnter([m EXCEPT !.loc.before = m.rt.m_presentBarrierJoined])
          IN IF r.wait THEN [w |-> r.w, pc |-> "sb_req_wait"] ELSE SwapBuffersAck(r.w)
     ELSE [w |-> m, pc |-> "loop"]

\* swapBuffers, the stereo toggle after the sync() of its swapResize.
SwapBuffersStereoDone(w) ==
  [SwapResizeBody(w, w.gpu.size, ~w.rt.m_config.m_stereo)
     EXCEPT !.rt.m_requestToggleStereo = FALSE]

----------------------------------------------------------------------------
(* Actions.  Set(w) writes a world back to the variables.                  *)

Set(w) == rt' = w.rt /\ gpu' = w.gpu /\ loc' = w.loc

\* Variant of StartWaitDone: m_conVar.wait without its predicate returning
\* at the first wakeup.
StartWaitDoneAlways(status) == TRUE

\* The predicate of m_conVar.wait in start().
StartWaitDone(status) == status # "CREATED"

\* Variant of PauseWaitDone: the wait of waitIfPaused() ends only when the
\* status is RUNNING again.
PauseWaitDoneWhenRunning(status) == status = "RUNNING"

\* The predicate of m_conVar.wait in waitIfPaused().
PauseWaitDone(status) == status # "PAUSED"

\* The frame fence reaches c: every registration of m_syncEvt for a value
\* reached sets the event.
FrameFenceReaches(g, c) ==
  LET fired == {v \in g.evtRegs : v <= c}
  IN [g EXCEPT !.completed = c,
               !.evtRegs = @ \ fired,
               !.syncEvt = @ \/ fired # {}]

(* The GPU, frame by frame: the command queue reaches the next             *)
(* Signal(m_frameFence, .).                                                *)
GpuAdvance ==
  /\ "fences" \in gpu.resources
  /\ gpu.completed < gpu.lastSignalled
  /\ gpu' = FrameFenceReaches(gpu, gpu.completed + 1)
  /\ UNCHANGED <<rt, loc, rpc, cpc, mutex>>

(* The GPU, command by command, where the render thread records what it    *)
(* puts on the queue (OverlayFrameSubmit, OverlaySwapBuffers): the queue    *)
(* executes its first command; a Wait lets the queue go on once its fence   *)
(* has reached the value.                                                   *)
GpuStep ==
  /\ "fences" \in gpu.resources
  /\ gpu.queue # <<>>
  /\ LET h == Head(gpu.queue)
         g == [gpu EXCEPT !.queue = Tail(@)]
     IN CASE h.op = "Wait" ->
               /\ IF h.on = "m_frameFence"
                  THEN gpu.completed >= h.value
                  ELSE gpu.guiCompleted >= h.value
               /\ gpu' = g
          [] h.op = "Execute" -> gpu' = g
          [] h.op = "Signal" ->
               gpu' = IF h.on = "m_frameFence"
                      THEN FrameFenceReaches(g, h.value)
                      ELSE [g EXCEPT !.guiCompleted = h.value]
  /\ UNCHANGED <<rt, loc, rpc, cpc, mutex>>

(* ---- render thread: the lambda of start() ---- *)

RenderInit ==
  /\ rpc = "init"
  /\ mutex = "free"
  /\ \E env \in InitEnvs :
       LET r == init(W, env)
           s == setStatus(r.w, IF r.ok THEN "RUNNING" ELSE "INITIAZATION_ERROR")
       IN /\ Set([s EXCEPT !.loc.initResult = r.ok])
          /\ rpc' = IF r.ok THEN "loop" ELSE "exited"
  /\ UNCHANGED <<cpc, mutex>>

\* while(!isInterrupted()); why the trySetDisplayMode of the iteration before
\* returned is forgotten.
RenderLoopCheck ==
  /\ rpc = "loop"
  /\ mutex = "free"
  /\ rpc' = IF rt.m_status = "INTERRUPTED" THEN "drain" ELSE "waitIfPaused"
  /\ loc' = [loc EXCEPT !.outputUnresolved = FALSE,
                         !.drainLeft = FALSE,
                         !.ackForced = FALSE]
  /\ UNCHANGED <<rt, gpu, cpc, mutex>>

RenderWaitIfPaused ==
  /\ rpc = "waitIfPaused"
  /\ mutex = "free"
  /\ PauseWaitDone(rt.m_status)
  /\ rpc' = "renderFrame"
  /\ UNCHANGED <<rt, gpu, loc, cpc, mutex>>

\* renderFrame: the sleep interval is read under the mutex, then the fence
\* is checked.
RenderFrameStart ==
  /\ rpc = "renderFrame"
  /\ mutex = "free"
  /\ LET r == RenderFrameBegin(W) IN Set(r.w) /\ rpc' = r.pc
  /\ UNCHANGED <<cpc, mutex>>

RenderFrameWait ==
  /\ rpc = "rf_wait"
  /\ \E outcome \in WaitOutcomes(gpu.syncEvt) :
       LET r == RenderFrameAfterWait(W, outcome) IN Set(r.w) /\ rpc' = r.pc
  /\ UNCHANGED <<cpc, mutex>>

RenderFrameSubmit ==
  /\ rpc = "rf_record"
  /\ Set(RenderFrameRecord(W))
  /\ rpc' = "swapBuffers"
  /\ UNCHANGED <<cpc, mutex>>

RenderSwapBuffers ==
  /\ rpc = "swapBuffers"
  /\ rt.m_skipNextSwap \/ rt.m_frameIdx < MaxFrames
  /\ Set(SwapBuffersFrame(W))
  /\ rpc' = IF rt.m_skipNextSwap THEN "sb_requests" ELSE "sb_stereo"
  /\ UNCHANGED <<cpc, mutex>>

\* RenderFrameSubmit and RenderSwapBuffers with the commands they put on
\* m_commandQueue.
OverlayFrameSubmit ==
  /\ rpc = "rf_record"
  /\ Set(RenderFrameSubmitLists(RenderFrameRecord(W)))
  /\ rpc' = "swapBuffers"
  /\ UNCHANGED <<cpc, mutex>>

OverlaySwapBuffers ==
  /\ rpc = "swapBuffers"
  /\ rt.m_skipNextSwap \/ rt.m_frameIdx < MaxFrames
  /\ Set(SwapBuffersSignal(rt.m_skipNextSwap, SwapBuffersFrame(W)))
  /\ rpc' = IF rt.m_skipNextSwap THEN "sb_requests" ELSE "sb_stereo"
  /\ UNCHANGED <<cpc, mutex>>

\* std::lock_guard guard(m_mutex); if(m_requestToggleStereo) swapResize(...)
RenderSwapStereo ==
  /\ rpc = "sb_stereo"
  /\ mutex = "free"
  /\ IF rt.m_requestToggleStereo
        /\ ~SwapResizeUnchanged(W, gpu.size, ~rt.m_config.m_stereo, FALSE)
     THEN LET r == SyncEnter(W)
          IN IF r.wait
             THEN Set(r.w) /\ rpc' = "sb_stereo_wait" /\ mutex' = "render"
             ELSE Set(SwapBuffersStereoDone(r.w)) /\ rpc' = "sb_requests"
                  /\ mutex' = "free"
     ELSE /\ Set([W EXCEPT !.rt.m_requestToggleStereo = FALSE])
          /\ rpc' = "sb_requests"
          /\ mutex' = "free"
  /\ UNCHANGED cpc

RenderSwapStereoWait ==
  /\ rpc = "sb_stereo_wait"
  /\ \E outcome \in WaitOutcomes(gpu.syncEvt) :
       LET r == SyncAfterWait(W, outcome)
       IN IF r.wait
          THEN Set(r.w) /\ UNCHANGED <<rpc, mutex>>
          ELSE Set(SwapBuffersStereoDone(r.w)) /\ rpc' = "sb_requests"
               /\ mutex' = "free"
  /\ UNCHANGED cpc

\* swapResize(width, height, stereo, force) with any parameters, called
\* where swapBuffers calls it: under the lock_guard, after the Present.
ResizeCallBegin ==
  /\ rpc = "sb_stereo"
  /\ mutex = "free"
  /\ \E args \in ResizeArgs :
       loc' = [loc EXCEPT !.resizeArgs = args, !.resizeEarly = FALSE]
  /\ rpc' = "resize_call"
  /\ mutex' = "render"
  /\ UNCHANGED <<rt, gpu, cpc>>

\* swapResize from its sync() on; the parameters are gone after the call.
ResizeCallDone(w) ==
  [SwapResizeBody(w, w.loc.resizeArgs.size, w.loc.resizeArgs.stereo)
     EXCEPT !.loc.resizeArgs = NoResizeArgs]

ResizeCallRun ==
  /\ rpc = "resize_call"
  /\ LET a == loc.resizeArgs
         e == SwapResizeEnter(W, a.size, a.stereo, a.force)
     IN IF e.done
        THEN /\ Set([e.w EXCEPT !.loc.resizeArgs = NoResizeArgs,
                                !.loc.resizeEarly = TRUE])
             /\ rpc' = "sb_stereo"
             /\ mutex' = "free"
        ELSE IF e.wait
        THEN Set(e.w) /\ rpc' = "resize_wait" /\ UNCHANGED mutex
        ELSE Set(ResizeCallDone(e.w)) /\ rpc' = "sb_stereo" /\ mutex' = "free"
  /\ UNCHANGED cpc

ResizeCallWait ==
  /\ rpc = "resize_wait"
  /\ \E outcome \in WaitOutcomes(gpu.syncEvt) :
       LET r == SyncAfterWait(W, outcome)
       IN IF r.wait
          THEN Set(r.w) /\ UNCHANGED <<rpc, mutex>>
          ELSE Set(ResizeCallDone(r.w)) /\ rpc' = "sb_stereo" /\ mutex' = "free"
  /\ UNCHANGED cpc

\* Where the render thread goes when trySetDisplayMode blocks or returns.
RenderAfterTsdm(t) ==
  IF t.block = "done"
  THEN LET r == SwapBuffersRequests(t.w)
       IN Set(r.w) /\ rpc' = r.pc /\ mutex' = IF r.pc = "loop" THEN "free" ELSE "render"
  ELSE Set(t.w) /\ rpc' = "sb_tsdm_" \o t.block /\ mutex' = "render"

\* std::lock_guard guard(m_mutex);
\* m_requestedDisplayMode = trySetDisplayMode(m_requestedDisplayMode); ...
RenderSwapRequests ==
  /\ rpc = "sb_requests"
  /\ mutex = "free"
  /\ \E outputOk \in BOOLEAN :
       RenderAfterTsdm(TsdmStart(W, rt.m_requestedDisplayMode, outputOk))
  /\ UNCHANGED cpc

RenderSwapTsdmWait ==
  /\ rpc \in {"sb_tsdm_sync1", "sb_tsdm_sync2"}
  /\ \E outcome \in WaitOutcomes(gpu.syncEvt) :
       RenderAfterTsdm(TsdmOnWait(W, IF rpc = "sb_tsdm_sync1" THEN "sync1" ELSE "sync2",
                                  outcome))
  /\ UNCHANGED cpc

RenderSwapReqWait ==
  /\ rpc = "sb_req_wait"
  /\ \E outcome \in WaitOutcomes(gpu.syncEvt) :
       LET left == outcome = "timeout" /\ rt.m_presentBarrierJoined
           r == SyncAfterWait([W EXCEPT !.loc.drainLeft = @ \/ left], outcome)
       IN IF r.wait
          THEN Set(r.w) /\ UNCHANGED <<rpc, mutex>>
          ELSE LET a == SwapBuffersAck(r.w)
               IN Set(a.w) /\ rpc' = a.pc /\ mutex' = "free"
  /\ UNCHANGED cpc

\* sync(); end(); after the loop.
RenderDrain ==
  /\ rpc = "drain"
  /\ LET r == SyncEnter(W)
     IN IF r.wait
        THEN Set(r.w) /\ rpc' = "drain_wait"
        ELSE Set(end(r.w)) /\ rpc' = "exited"
  /\ UNCHANGED <<cpc, mutex>>

RenderDrainWait ==
  /\ rpc = "drain_wait"
  /\ \E outcome \in WaitOutcomes(gpu.syncEvt) :
       LET r == SyncAfterWait(W, outcome)
       IN IF r.wait
          THEN Set(r.w) /\ UNCHANGED rpc
          ELSE Set(end(r.w)) /\ rpc' = "exited"
  /\ UNCHANGED <<cpc, mutex>>

(* ---- control thread: the public API as Sample (main.cpp) drives it ---- *)

\* start(initialConfig, .): m_config is copied, the thread is created while
\* the mutex is held and m_conVar.wait releases it.
CtlStart(configs) ==
  /\ cpc = "created"
  /\ \E cfg \in configs : rt' = [rt EXCEPT !.m_config = cfg]
  /\ rpc' = "init"
  /\ cpc' = "start_wait"
  /\ UNCHANGED <<gpu, loc, mutex>>

\* start() returns: the wait's predicate holds and the mutex is re-acquired.
CtlStartReturn ==
  /\ cpc = "start_wait"
  /\ mutex = "free"
  /\ StartWaitDone(rt.m_status)
  /\ loc' = [loc EXCEPT !.startResult = (rt.m_status # "INITIAZATION_ERROR")]
  /\ cpc' = IF rt.m_status # "INITIAZATION_ERROR" THEN "think" ELSE "failed"
  /\ UNCHANGED <<rt, gpu, rpc, mutex>>

CtlTogglePaused ==
  /\ cpc = "think"
  /\ mutex = "free"
  /\ rt.m_status \in {"RUNNING", "PAUSED"}
  /\ Set(setStatus(W, IF rt.m_status = "RUNNING" THEN "PAUSED" ELSE "RUNNING"))
  /\ UNCHANGED <<rpc, cpc, mutex>>

CtlToggleStereo ==
  /\ cpc = "think"
  /\ mutex = "free"
  /\ rt' = [rt EXCEPT !.m_requestToggleStereo = ~@]
  /\ UNCHANGED <<gpu, loc, rpc, cpc, mutex>>

setSleepInterval(w, millis) ==
  [w EXCEPT !.rt.m_config.m_sleepIntervalInMilliseconds = millis]

\* std::int32_t millis = m_config.m_sleepIntervalInMilliseconds + deltaMillis:
\* deltaMillis is converted to std::uint32_t, the sum is formed modulo 2^32
\* and converted to std::int32_t.
changeSleepInterval(w, deltaMillis) ==
  LET millis == ToInt32(WideAdd(w.rt.m_config.m_sleepIntervalInMilliseconds,
                                ToUint32(deltaMillis)))
  IN IF millis.hi >= 0
     THEN [w EXCEPT !.rt.m_config.m_sleepIntervalInMilliseconds = ToUint32(millis)]
     ELSE w

\* The sleep interval calls of a RenderThread, each under the mutex.
CtlSetSleepInterval ==
  /\ cpc \in {"created", "think"}
  /\ mutex = "free"
  /\ loc.sleepCalls < MaxSleepCalls
  /\ \E millis \in SleepIntervals :
       Set([setSleepInterval(W, millis) EXCEPT !.loc.sleepCalls = @ + 1])
  /\ UNCHANGED <<rpc, cpc, mutex>>

CtlChangeSleepInterval ==
  /\ cpc \in {"created", "think"}
  /\ mutex = "free"
  /\ loc.sleepCalls < MaxSleepCalls
  /\ \E deltaMillis \in SleepDeltas :
       Set([changeSleepInterval(W, deltaMillis) EXCEPT !.loc.sleepCalls = @ + 1])
  /\ UNCHANGED <<rpc, cpc, mutex>>

\* Sample::swapVsync -> setVsync(enabled), under the mutex.
CtlSetVsync ==
  /\ cpc = "think"
  /\ mutex = "free"
  /\ \E enabled \in BOOLEAN :
       rt' = [rt EXCEPT !.m_syncInterval = IF enabled THEN 1 ELSE 0]
  /\ UNCHANGED <<gpu, loc, rpc, cpc, mutex>>

\* Variant of requestBorderlessStateChange: the test for FULLSCREEN is
\* missing.
requestBorderlessStateChangeAlways(w) ==
  [w EXCEPT !.rt.m_requestedDisplayMode =
              IF @ = "BORDERLESS" THEN "WINDOWED" ELSE "BORDERLESS"]

requestBorderlessStateChange(w) ==
  IF w.rt.m_requestedDisplayMode # "FULLSCREEN"
  THEN [w EXCEPT !.rt.m_requestedDisplayMode =
                   IF @ = "BORDERLESS" THEN "WINDOWED" ELSE "BORDERLESS"]
  ELSE w

requestFullscreenStateChange(w) ==
  IF w.rt.m_requestedDisplayMode # "BORDERLESS"
  THEN [w EXCEPT !.rt.m_requestedDisplayMode =
                   IF @ = "FULLSCREEN" THEN "WINDOWED" ELSE "FULLSCREEN"]
  ELSE w

CtlRequestBorderlessStateChange ==
  /\ cpc = "think"
  /\ mutex = "free"
  /\ Set(requestBorderlessStateChange(W))
  /\ UNCHANGED <<rpc, cpc, mutex>>

CtlRequestFullscreenStateChange ==
  /\ cpc = "think"
  /\ mutex = "free"
  /\ Set(requestFullscreenStateChange(W))
  /\ UNCHANGED <<rpc, cpc, mutex>>

\* Values of maxWaitMillis: 0, and the 1000 of the T key.
MaxWaits == {0, 1000}

\* requestPresentBarrierChange(maxWaitMillis) up to its return or its
\* wait_for, which releases the mutex.
CtlRequestPresentBarrierChange ==
  /\ cpc = "think"
  /\ mutex = "free"
  /\ rt' = [rt EXCEPT !.m_presentBarrierChangeRequested = TRUE]
  /\ \E maxWaitMillis \in MaxWaits :
       IF maxWaitMillis = 0
       THEN /\ loc' = [loc EXCEPT !.reqWaited = FALSE, !.reqServiced = FALSE,
                                  !.reqWake = "none", !.reqResult = TRUE]
            /\ cpc' = "req_done"
       ELSE /\ loc' = [loc EXCEPT !.reqWaited = TRUE, !.reqServiced = FALSE,
                                  !.reqWake = "waiting", !.reqResult = FALSE]
            /\ cpc' = "req_wait"
  /\ UNCHANGED <<gpu, rpc, mutex>>

\* Ways wait_for stops waiting without a notification: the timeout elapses,
\* or the wait wakes up spuriously (it has no predicate).
UnnotifiedWakes == {"timeout", "spurious"}

CtlReqWake ==
  /\ cpc = "req_wait"
  /\ loc.reqWake = "waiting"
  /\ \E why \in UnnotifiedWakes : loc' = [loc EXCEPT !.reqWake = why]
  /\ UNCHANGED <<rt, gpu, rpc, cpc, mutex>>

\* wait_for re-acquires the mutex and returns its cv_status.
CtlReqReturn ==
  /\ cpc = "req_wait"
  /\ loc.reqWake # "waiting"
  /\ mutex = "free"
  /\ loc' = [loc EXCEPT !.reqResult = (loc.reqWake # "timeout")]
  /\ cpc' = "req_done"
  /\ UNCHANGED <<rt, gpu, rpc, mutex>>

\* The locals of requestPresentBarrierChange are gone after the call.
ReqLocalsDone(w) ==
  [w EXCEPT !.loc.reqWaited = InitLoc.reqWaited,
            !.loc.reqServiced = InitLoc.reqServiced,
            !.loc.reqWake = InitLoc.reqWake,
            !.loc.reqResult = InitLoc.reqResult]

\* Sample::think, key T: a request that returned false is followed by
\* forcePresentBarrierChange() on the control thread, without the mutex.
CtlAfterRequest ==
  /\ cpc = "req_done"
  /\ Set(ReqLocalsDone(IF ~loc.reqResult
                       THEN forcePresentBarrierChange(W)
                       ELSE W))
  /\ cpc' = "think"
  /\ UNCHANGED <<rpc, mutex>>

\* Where the control thread goes when trySetDisplayMode blocks or returns.
CtlAfterTsdm(t) ==
  /\ Set(t.w)
  /\ cpc' = IF t.block = "done" THEN "join" ELSE "ij_tsdm_" \o t.block
  /\ mutex' = IF t.block = "done" THEN "free" ELSE "control"

CtlInterruptAndJoin ==
  /\ cpc = "think"
  /\ mutex = "free"
  /\ LET s == setStatus(W, "INTERRUPTED")
     IN IF s.rt.m_displayMode = "FULLSCREEN"
        THEN \E outputOk \in BOOLEAN : CtlAfterTsdm(TsdmStart(s, "WINDOWED", outputOk))
        ELSE CtlAfterTsdm([w |-> s, block |-> "done"])
  /\ UNCHANGED rpc

CtlInterruptTsdmWait ==
  /\ cpc \in {"ij_tsdm_sync1", "ij_tsdm_sync2"}
  /\ \E outcome \in WaitOutcomes(gpu.syncEvt) :
       CtlAfterTsdm(TsdmOnWait(W, IF cpc = "ij_tsdm_sync1" THEN "sync1" ELSE "sync2",
                               outcome))
  /\ UNCHANGED rpc

\* m_thread.join()
CtlJoin ==
  /\ cpc = "join"
  /\ rpc = "exited"
  /\ cpc' = "done"
  /\ UNCHANGED <<rt, gpu, loc, rpc, mutex>>

----------------------------------------------------------------------------------------------------------------------------------------
(* Specifications.  The control thread's API is explored in groups: every  *)
(* specification has the whole render loop, the GPU, start and             *)
(* interruptAndJoin, and one group of requests.                            *)

\* One iteration of the frame loop when nothing is requested.
RenderLoop ==
  \/ RenderInit
  \/ RenderLoopCheck
  \/ RenderWaitIfPaused
  \/ RenderFrameStart
  \/ RenderFrameWait
  \/ RenderFrameSubmit
  \/ RenderSwapBuffers
  \/ RenderSwapStereo
  \/ RenderSwapRequests

\* The render thread without the waits only a request can reach.
RenderCore ==
  \/ RenderLoop
  \/ RenderDrain
  \/ RenderDrainWait

CtlLifecycle ==
  \/ CtlStartReturn
  \/ CtlInterruptAndJoin
  \/ CtlInterruptTsdmWait
  \/ CtlJoin

\* Key T of Sample::think.
CtlBarrierKey ==
  \/ CtlRequestPresentBarrierChange
  \/ CtlReqWake
  \/ CtlReqReturn
  \/ CtlAfterRequest

\* Present barrier requests and pausing.
Next ==
  \/ RenderCore
  \/ RenderSwapReqWait
  \/ GpuAdvance
  \/ CtlStart(RunConfigs)
  \/ CtlLifecycle
  \/ CtlBarrierKey
  \/ CtlTogglePaused

Spec == Init /\ [][Next]_vars

\* Surface requests: stereo and display mode.
SurfaceNext ==
  \/ RenderCore
  \/ RenderSwapStereoWait
  \/ RenderSwapTsdmWait
  \/ GpuAdvance
  \/ CtlStart(RunConfigs)
  \/ CtlLifecycle
  \/ CtlToggleStereo
  \/ CtlRequestBorderlessStateChange
  \/ CtlRequestFullscreenStateChange

SurfaceSpec == Init /\ [][SurfaceNext]_vars

\* The frame loop and the GPU alone: the control thread returns from start()
\* and stays in Sample::think without a key pressed.
FrameNext ==
  \/ RenderLoop
  \/ GpuAdvance
  \/ CtlStart(RunConfigs)
  \/ CtlStartReturn

FrameSpec == Init /\ [][FrameNext]_vars

\* The frame loop with the GPU executing its queue command by command.
OverlayNext ==
  \/ RenderInit
  \/ RenderLoopCheck
  \/ RenderWaitIfPaused
  \/ RenderFrameStart
  \/ RenderFrameWait
  \/ OverlayFrameSubmit
  \/ OverlaySwapBuffers
  \/ RenderSwapStereo
  \/ RenderSwapRequests
  \/ GpuStep
  \/ CtlStart(RunConfigs)
  \/ CtlStartReturn

OverlaySpec == Init /\ [][OverlayNext]_vars

\* A GPU that never completes a frame: no GpuAdvance.  The render thread is
\* scheduled (weak fairness on its steps), and so is the control thread
\* inside the timed wait of interruptAndJoin's trySetDisplayMode.
StalledRender == RenderCore \/ RenderSwapReqWait

StalledNext ==
  \/ StalledRender
  \/ CtlStart(RunConfigs)
  \/ CtlLifecycle
  \/ CtlBarrierKey

StalledSpec ==
  /\ Init
  /\ [][StalledNext]_vars
  /\ WF_vars(StalledRender)
  /\ WF_vars(CtlInterruptTsdmWait)

\* Present barrier requests and pausing on a windowed display, with a GPU
\* that may or may not make progress and a render thread that keeps being
\* scheduled (weak fairness on its steps).
ServiceConfigs == {cfg \in RunConfigs : cfg.m_startupDisplayMode = "w"}

ServiceRender == RenderLoop \/ RenderSwapReqWait

ServiceNext ==
  \/ ServiceRender
  \/ GpuAdvance
  \/ CtlStart(ServiceConfigs)
  \/ CtlStartReturn
  \/ CtlBarrierKey
  \/ CtlTogglePaused

ServiceSpec ==
  /\ Init
  /\ [][ServiceNext]_vars
  /\ WF_vars(ServiceRender)

\* interruptAndJoin from every state of a run whose frame fence never
\* signals: running or paused, skipping frames, requests pending.  The
\* render thread keeps being scheduled, and so is the control thread inside
\* the timed waits of interruptAndJoin's trySetDisplayMode and in
\* m_thread.join().
JoinNext ==
  \/ StalledRender
  \/ CtlStart(RunConfigs)
  \/ CtlLifecycle
  \/ CtlBarrierKey
  \/ CtlTogglePaused

JoinSpec ==
  /\ Init
  /\ [][JoinNext]_vars
  /\ WF_vars(StalledRender)
  /\ WF_vars(CtlInterruptTsdmWait)
  /\ WF_vars(CtlJoin)

\* The step runs the windowed or borderless branch of trySetDisplayMode,
\* which calls m_windowCallback->setDecorated and setPosAndSize before it
\* records the new mode; both lock Sample::m_mutex.
CallsWindowCallback ==
  /\ rt'.m_displayMode # rt.m_displayMode
  /\ rt'.m_displayMode # "FULLSCREEN"

\* std::lock_guard guard(m_mutex) of Sample::setDecorated and
\* Sample::setPosAndSize: the caller goes on when Sample::m_mutex is free.
WindowCallbackLocks == CallsWindowCallback => gpu.windowMutex = "free"

\* Variant of CtlThinkWindowUnlock: the block of Sample::think is left with
\* Sample::m_mutex still locked.
CtlThinkWindowKeepsLock ==
  /\ cpc = "think_window"
  /\ cpc' = "think"
  /\ UNCHANGED <<rt, gpu, loc, rpc, mutex>>

\* Sample::think, the block that applies what the window callbacks left:
\* std::lock_guard guard(m_mutex) on Sample::m_mutex, with no call into the
\* RenderThread inside.
CtlThinkWindowLock ==
  /\ cpc = "think"
  /\ gpu.windowMutex = "free"
  /\ gpu' = [gpu EXCEPT !.windowMutex = "control"]
  /\ cpc' = "think_window"
  /\ UNCHANGED <<rt, loc, rpc, mutex>>

CtlThinkWindowUnlock ==
  /\ cpc = "think_window"
  /\ gpu' = [gpu EXCEPT !.windowMutex = "free"]
  /\ cpc' = "think"
  /\ UNCHANGED <<rt, loc, rpc, mutex>>

\* The render thread with the window callbacks of trySetDisplayMode taking
\* Sample::m_mutex, up to MaxLockFrames frames.
LockRender ==
  \/ RenderInit
  \/ RenderLoopCheck
  \/ RenderWaitIfPaused
  \/ RenderFrameStart
  \/ RenderFrameWait
  \/ RenderFrameSubmit
  \/ (rt.m_skipNextSwap \/ rt.m_frameIdx < MaxLockFrames) /\ RenderSwapBuffers
  \/ RenderSwapStereo
  \/ RenderSwapRequests /\ WindowCallbackLocks
  \/ RenderSwapTsdmWait /\ WindowCallbackLocks
  \/ RenderSwapReqWait
  \/ RenderDrain
  \/ RenderDrainWait

\* The control thread: start, the keys that make both threads lock and
\* wait (pause, present barrier change, fullscreen), the window block of
\* Sample::think, and interruptAndJoin.
LockControl ==
  \/ CtlStart(RunConfigs)
  \/ CtlStartReturn
  \/ CtlTogglePaused
  \/ CtlBarrierKey
  \/ CtlRequestFullscreenStateChange
  \/ CtlThinkWindowLock
  \/ CtlThinkWindowUnlock
  \/ CtlInterruptAndJoin /\ WindowCallbackLocks
  \/ CtlInterruptTsdmWait /\ WindowCallbackLocks
  \/ CtlJoin

LockNext ==
  \/ LockRender
  \/ LockControl
  \/ GpuAdvance

LockSpec == Init /\ [][LockNext]_vars

\* The sleep interval of a RenderThread: setSleepInterval and
\* changeSleepInterval over the 32-bit values at the ends of their ranges.
SleepNext ==
  \/ CtlSetSleepInterval
  \/ CtlChangeSleepInterval

SleepSpec == Init /\ [][SleepNext]_vars

\* Windowed startup with the present barrier disabled.
DisabledConfigs ==
  {cfg \in RunConfigs :
     cfg.m_disablePresentBarrier /\ cfg.m_startupDisplayMode = "w"}

\* A run with the present barrier disabled: present barrier requests with
\* every way their wait can end, stereo toggles, fullscreen requests,
\* interruptAndJoin, and every GPU timing.
\* RenderSwapBuffers up to MaxDisabledFrames frames.
DisabledSwapBuffers ==
  /\ rt.m_skipNextSwap \/ rt.m_frameIdx < MaxDisabledFrames
  /\ RenderSwapBuffers

DisabledNext ==
  \/ RenderInit
  \/ RenderLoopCheck
  \/ RenderWaitIfPaused
  \/ RenderFrameStart
  \/ RenderFrameWait
  \/ RenderFrameSubmit
  \/ DisabledSwapBuffers
  \/ RenderSwapStereo
  \/ RenderSwapRequests
  \/ RenderDrain
  \/ RenderDrainWait
  \/ RenderSwapStereoWait
  \/ RenderSwapTsdmWait
  \/ RenderSwapReqWait
  \/ GpuAdvance
  \/ CtlStart(DisabledConfigs)
  \/ CtlLifecycle
  \/ CtlBarrierKey
  \/ CtlToggleStereo
  \/ CtlRequestFullscreenStateChange

DisabledSpec == Init /\ [][DisabledNext]_vars

\* The vsync setting changed while frames are presented.
VsyncNext ==
  \/ RenderCore
  \/ GpuAdvance
  \/ CtlStart(RunConfigs)
  \/ CtlLifecycle
  \/ CtlSetVsync

VsyncSpec == Init /\ [][VsyncNext]_vars

\* swapResize with every combination of parameters, between the frames of
\* the loop.
ResizeNext ==
  \/ FrameNext
  \/ ResizeCallBegin
  \/ ResizeCallRun
  \/ ResizeCallWait

ResizeSpec == Init /\ [][ResizeNext]_vars

\* Display mode requests while frames are presented.
DisplayModeNext ==
  \/ RenderLoop
  \/ RenderSwapTsdmWait
  \/ GpuAdvance
  \/ CtlStart(RunConfigs)
  \/ CtlStartReturn
  \/ CtlRequestBorderlessStateChange
  \/ CtlRequestFullscreenStateChange

DisplayModeSpec == Init /\ [][DisplayModeNext]_vars

\* Fullscreen requests alone: the only transitions are WINDOWED -> FULLSCREEN
\* and FULLSCREEN -> WINDOWED.
FullscreenNext ==
  \/ RenderLoop
  \/ RenderSwapTsdmWait
  \/ GpuAdvance
  \/ CtlStart(RunConfigs)
  \/ CtlStartReturn
  \/ CtlRequestFullscreenStateChange

FullscreenSpec == Init /\ [][FullscreenNext]_vars

\* The swap chain's fullscreen state belongs to DXGI: the window is left
\* associated with DXGI's own Alt+Enter handling and a fullscreen swap chain
\* drops to windowed when its window loses the focus, so the value
\* GetFullscreenState returns can change between two calls of
\* trySetDisplayMode without the RenderThread taking part.
ExternalFullscreenChange ==
  /\ "swapchain" \in gpu.resources
  /\ gpu' = [gpu EXCEPT !.fullscreen = ~@]
  /\ UNCHANGED <<rt, loc, rpc, cpc, mutex>>

\* Display mode requests against a swap chain whose fullscreen state also
\* changes from outside.
DesyncNext ==
  \/ RenderLoop
  \/ RenderSwapTsdmWait
  \/ GpuAdvance
  \/ ExternalFullscreenChange
  \/ CtlStart(RunConfigs)
  \/ CtlStartReturn
  \/ CtlRequestBorderlessStateChange
  \/ CtlRequestFullscreenStateChange

DesyncSpec == Init /\ [][DesyncNext]_vars

----------------------------------------------------------------------------
(* Alternate frame rendering: the presentable images of a resized surface  *)
(* and the nodes they are bound to.                                        *)

\* Variant of AfrBindImages: the images are handed out node by node, the
\* first D3D12_SWAP_CHAIN_SIZE to node 0, the next to node 1, and so on.
AfrBindImagesInBlocks(count, nodes, node) ==
  [i \in 1..count |-> 2 ^ ((i - 1) \div D3D12_SWAP_CHAIN_SIZE)]

\* The node masks of count images created one after the other, the first on
\* node: after each image the node advances and wraps around at nodes.
RECURSIVE AfrBindImages(_, _, _)
AfrBindImages(count, nodes, node) ==
  IF count = 0
  THEN <<>>
  ELSE <<2 ^ node>>
         \o AfrBindImages(count - 1, nodes, IF node + 1 = nodes THEN 0 ELSE node + 1)

\* The nodes a node mask names.
AfrNodesOf(mask) == {n \in 0..(MaxNodes - 1) : (mask \div (2 ^ n)) % 2 = 1}

\* resize(size, stereo, force) of the surface of a device with nodeCount
\* nodes: per-slot count x node count images with AFR, per-slot count
\* without; the per-node resources are rebuilt wholesale.
AfrSwapResize(afr, nodeCount, size, stereo) ==
  LET nodes == IF afr THEN nodeCount ELSE 1
  IN [afr |-> afr,
      nodeCount |-> nodeCount,
      size |-> size,
      stereo |-> stereo,
      images |-> AfrBindImages(D3D12_SWAP_CHAIN_SIZE * nodes, nodes, 0),
      current |-> 0,
      nodeResources |-> [n \in 0..(MaxNodes - 1) |-> {}],
      nextId |-> 0]

\* A frame on the current image: its node's descriptor storage and
\* command-issuing resources are created on first use, then the surface
\* moves to the next image.
AfrFrame(a) ==
  LET node == CHOOSE n \in AfrNodesOf(a.images[a.current + 1]) : TRUE
      first == a.nodeResources[node] = {}
  IN [a EXCEPT !.nodeResources[node] = IF first THEN {a.nextId, a.nextId + 1} ELSE @,
               !.nextId = IF first THEN @ + 2 ELSE @,
               !.current = (@ + 1) % Len(a.images)]

AfrResize ==
  /\ \E afr \in BOOLEAN, nodeCount \in 1..MaxNodes, size \in Sizes, stereo \in BOOLEAN :
       gpu' = [gpu EXCEPT !.afr = AfrSwapResize(afr, nodeCount, size, stereo)]
  /\ UNCHANGED <<rt, loc, rpc, cpc, mutex>>

AfrRender ==
  /\ gpu.afr.images # <<>>
  /\ gpu' = [gpu EXCEPT !.afr = AfrFrame(@)]
  /\ UNCHANGED <<rt, loc, rpc, cpc, mutex>>

AfrNext ==
  \/ AfrResize
  \/ AfrRender

AfrSpec == Init /\ [][AfrNext]_vars

\* start() over every configuration.
StartNext ==
  \/ CtlStart(AllConfigs)
  \/ RenderInit
  \/ CtlStartReturn

StartSpec == Init /\ [][StartNext]_vars

----------------------------------------------------------------------------
(* Properties.                                                             *)

\* C1: slot reuse safety.  Whenever renderFrame got past the backpressure
\* wait and reset the command allocators of the current slot, the frame
\* fence's completed value was >= the frame index stored for that slot.
SlotReuseSafety == gpu.reuseSafe

\* Strictly increasing sequence.
StrictlyIncreasing(s) == \A i, j \in 1..Len(s) : i < j => s[i] < s[j]

\* C2: m_frameIdx is strictly increasing across presented frames.  A step
\* that presents or changes m_frameIdx does both, raises m_frameIdx by
\* exactly one, stores the new index for the presented slot and signals it
\* on the frame fence; no two presented frames share an index.
FrameIdxStrictlyIncreasing ==
  [][/\ (rt.m_frameIdx' # rt.m_frameIdx \/ gpu.presented' # gpu.presented)
        => /\ rt.m_frameIdx' = rt.m_frameIdx + 1
           /\ gpu.presented' = Append(gpu.presented, rt.m_frameIdx')
           /\ gpu.lastSignalled' = rt.m_frameIdx'
           /\ rt.m_allocatorFrameIndices'[CurrentSlot(W)] = rt.m_frameIdx'
     /\ StrictlyIncreasing(gpu.presented')
     /\ gpu.lastSignalled' = rt.m_frameIdx']_vars

FramesPresented ==
  /\ Len(gpu.presented) >= D3D12_SWAP_CHAIN_SIZE
  /\ rt.m_skipNextSwap
  /\ rpc = "loop"

\* C3: a skipped iteration has no presentation effects.  While
\* m_skipNextSwap is set (from the timeout of the wait to the next
\* renderFrame that clears it) no step presents, signals the frame fence,
\* changes m_frameIdx or an entry of m_allocatorFrameIndices, or refreshes
\* the present barrier statistics.
SkipHasNoPresentationEffects ==
  [][rt.m_skipNextSwap
       => /\ gpu.presented' = gpu.presented
          /\ gpu.lastSignalled' = gpu.lastSignalled
          /\ rt.m_frameIdx' = rt.m_frameIdx
          /\ rt.m_allocatorFrameIndices' = rt.m_allocatorFrameIndices
          /\ rt.m_presentBarrierFrameStats' = rt.m_presentBarrierFrameStats]_vars

SkippedIterationDone ==
  /\ rt.m_skipNextSwap
  /\ rpc = "renderFrame"
  /\ rt.m_presentBarrierJoined
  /\ gpu.completed < gpu.lastSignalled

\* C4: the render loop never stalls on the GPU.  With a frame fence that
\* never signals, a RUNNING render thread keeps coming back to its
\* isInterrupted check, a renderFrame blocked in the backpressure wait
\* returns as skipped, and the render thread keeps releasing the mutex.
LoopNeverStalls ==
  /\ []<>(rt.m_status # "RUNNING" \/ rpc = "loop")
  /\ (rpc = "rf_wait") ~> (rpc = "swapBuffers" /\ rt.m_skipNextSwap)
  /\ []<>(mutex # "render")

StalledLoopTurned ==
  /\ gpu.completed = 0
  /\ rt.m_frameIdx = D3D12_SWAP_CHAIN_SIZE
  /\ rt.m_skipNextSwap
  /\ rt.m_status = "RUNNING"
  /\ rpc = "loop"

\* C5: full drain before touching the surface.  Whenever swapResize
\* released, recreated or resized the back buffers, or trySetDisplayMode
\* changed the fullscreen state, the frame fence's completed value was equal
\* to m_frameIdx.
SurfaceTouchedOnlyWhenDrained == gpu.touchDrained

\* init() has returned.
InitFinished == rpc \notin {"none", "init"}

\* start() has returned.
StartReturned == cpc \notin {"created", "start_wait"}

\* C6: start does not return before init has finished, it returns true
\* exactly when init returned true, and after a failed init the render
\* thread is not in the frame loop: it has exited.
StartWaitsForInit ==
  /\ StartReturned => InitFinished /\ loc.startResult = loc.initResult
  /\ InitFinished /\ ~loc.initResult => rpc = "exited" /\ gpu.presented = <<>>

StartFailedAfterInit ==
  /\ cpc = "failed"
  /\ ~loc.startResult
  /\ rpc = "exited"
  /\ rt.m_status = "INITIAZATION_ERROR"

\* The configuration errors: test mode conflicting with the startup display
\* mode (as the short names init compares), unknown test mode, test-mode
\* interval <= 1, unknown startup display mode.
ConfigError(cfg) ==
  \/ cfg.m_testMode = "f" /\ cfg.m_startupDisplayMode = "b"
  \/ cfg.m_testMode = "b" /\ cfg.m_startupDisplayMode = "f"
  \/ cfg.m_testMode \notin {"n", "f", "b", "i"}
  \/ cfg.m_testModeInterval <= 1
  \/ cfg.m_startupDisplayMode \notin
       {"b", "borderless", "f", "fullscreen", "w", "windowed"}

\* C7: every configuration error makes init, and with it start, fail, and
\* is detected before any GPU resource has been created.
ConfigErrorsFailBeforeResources ==
  /\ InitFinished /\ ConfigError(rt.m_config)
       => ~loc.initResult /\ gpu.resources = {}
  /\ StartReturned /\ ConfigError(rt.m_config) => ~loc.startResult

\* C8: requestPresentBarrierChange(maxWaitMillis > 0) returns true exactly
\* when the render thread cleared the request and notified before the
\* timeout elapsed, and never while the request is still pending.
RequestTrueIffServiced ==
  cpc = "req_done" /\ loc.reqWaited
    => /\ loc.reqResult <=> (loc.reqServiced /\ loc.reqWake = "notified")
       /\ loc.reqResult => ~rt.m_presentBarrierChangeRequested

\* C9: requestPresentBarrierChange(0) marks the change pending and returns
\* true at once; requestPresentBarrierChange(t > 0) that comes back from its
\* wait without the render thread having serviced the request returns false
\* and leaves the request pending.
RequestZeroTrueUnservicedFalse ==
  [][/\ (cpc = "think" /\ cpc' = "req_done")
          => rt.m_presentBarrierChangeRequested' /\ loc.reqResult'
     /\ (cpc = "req_wait" /\ cpc' = "req_done" /\ ~loc.reqServiced)
          => ~loc.reqResult' /\ rt.m_presentBarrierChangeRequested']_vars

\* C10: barrier state changes are idempotent.  On a controller with a
\* present barrier client, forcePresentBarrierChange applied twice leaves
\* the RenderThread as one application does.
ForceChangeIdempotent ==
  rt.m_presentBarrierClient
    => forcePresentBarrierChange(forcePresentBarrierChange(W)).rt
         = forcePresentBarrierChange(W).rt

\* The step of Sample::think that calls forcePresentBarrierChange.
CtlForceStep == cpc = "req_done" /\ ~loc.reqResult /\ cpc' = "think"

\* C10 as amended: forcePresentBarrierChange is a toggle.  With the present
\* barrier enabled every application flips m_presentBarrierJoined, so two
\* applications restore it; with the present barrier disabled it changes
\* nothing; the statistics are never changed by it.
ForceChangeToggles ==
  [][CtlForceStep
       => /\ rt.m_presentBarrierJoined' =
               IF rt.m_config.m_disablePresentBarrier
               THEN rt.m_presentBarrierJoined
               ELSE ~rt.m_presentBarrierJoined
          /\ rt.m_presentBarrierFrameStats' = rt.m_presentBarrierFrameStats
          /\ forcePresentBarrierChange(forcePresentBarrierChange(W)).rt = rt]_vars

ForceOnJoinedController ==
  /\ cpc = "req_done"
  /\ ~loc.reqResult
  /\ rt.m_presentBarrierJoined
  /\ ~rt.m_config.m_disablePresentBarrier
  /\ rt.m_presentBarrierFrameStats > 0

\* C11: surface recreation preserves join state.  A swapResize call that
\* runs from its entry to its return within one step, the recreation of the
\* stereo toggle or the in-place resize at the end of trySetDisplayMode,
\* leaves m_presentBarrierJoined as it was before the call.
SwapResizePreservesJoined ==
  [][(\/ rpc = "sb_stereo" /\ rt.m_requestToggleStereo /\ rpc' = "sb_requests"
      \/ /\ rpc = "sb_requests"
         /\ ~rt.m_presentBarrierChangeRequested
         /\ rt.m_displayMode' # rt.m_displayMode
         /\ rpc' = "loop")
       => rt.m_presentBarrierJoined' = rt.m_presentBarrierJoined]_vars

\* C12: with m_disablePresentBarrier set every barrier operation is a no-op.
\* In every state of a run with the present barrier disabled
\* m_presentBarrierJoined is false, there is no present barrier client, the
\* statistics were never refreshed, and no present barrier call (create,
\* register, join, leave, query, destroy) was ever issued.
DisabledBarrierIsNoOp ==
  rt.m_config.m_disablePresentBarrier
    => /\ ~rt.m_presentBarrierJoined
       /\ ~rt.m_presentBarrierClient
       /\ rt.m_presentBarrierFrameStats = 0
       /\ ~gpu.pbIssued

\* Disabled, frames presented, stereo toggled, and Sample::think about to
\* call forcePresentBarrierChange after a request that timed out.
DisabledForceAfterResize ==
  /\ rt.m_config.m_disablePresentBarrier
  /\ rt.m_config.m_stereo
  /\ gpu.presented # <<>>
  /\ cpc = "req_done"
  /\ ~loc.reqResult

\* C13: the barrier statistics are refreshed exactly once for every
\* presented frame and never on a skipped iteration: a step that presents
\* refreshes them for the frame it presents, any other step leaves them.
StatsRefreshedEveryPresentedFrame ==
  [][IF gpu.presented' # gpu.presented
     THEN rt.m_presentBarrierFrameStats' = rt.m_frameIdx'
     ELSE rt.m_presentBarrierFrameStats' = rt.m_presentBarrierFrameStats]_vars

\* C13 as amended: the statistics are refreshed exactly once for every frame
\* presented while the present barrier is enabled and joined, and never
\* otherwise: not for a frame presented while not joined, not on a skipped
\* iteration, not by any other step.
StatsRefreshedWhenJoined ==
  [][IF /\ gpu.presented' # gpu.presented
        /\ ~rt.m_config.m_disablePresentBarrier
        /\ rt.m_presentBarrierJoined
     THEN rt.m_presentBarrierFrameStats' = rt.m_frameIdx'
     ELSE rt.m_presentBarrierFrameStats' = rt.m_presentBarrierFrameStats]_vars

\* A frame was presented while joined and a later one while not joined.
PresentedJoinedThenNotJoined ==
  /\ rt.m_presentBarrierFrameStats > 0
  /\ rt.m_presentBarrierFrameStats < rt.m_frameIdx
  /\ ~rt.m_presentBarrierJoined
  /\ rpc = "sb_stereo"

\* C14: exclusive fullscreen never outlives the render thread.  Once the
\* render thread has run end() and exited, the tracked display mode is not
\* FULLSCREEN and the swap chain was not left in exclusive fullscreen.
NoFullscreenAtExit ==
  rpc = "exited" /\ loc.initResult
    => rt.m_displayMode # "FULLSCREEN" /\ ~gpu.fullscreen

\* C15: the render thread tears down the GPU resources only after a full
\* drain.  The step that runs end() after the loop finds the frame fence's
\* completed value equal to m_frameIdx.
EndOnlyWhenDrained ==
  [][(rpc \in {"drain", "drain_wait"} /\ rpc' = "exited")
       => gpu.completed = rt.m_frameIdx]_vars

\* The render thread is inside renderFrame, past the read of the sleep
\* interval, or inside swapBuffers before its first lock_guard: the part of
\* an iteration that runs without the mutex.
RenderInFrame == rpc \in {"rf_wait", "rf_record", "swapBuffers"}

\* The control thread is inside the trySetDisplayMode of interruptAndJoin,
\* in the wait of one of its sync() calls.
ControlInTsdm == cpc \in {"ij_tsdm_sync1", "ij_tsdm_sync2"}

\* C16: the GPU-side state is operated on only by the render thread.  There
\* is no state in which the control thread executes trySetDisplayMode (its
\* sync and swapResize) while the render thread is inside renderFrame or
\* swapBuffers.
GpuStateOnlyOnRenderThread == ~(ControlInTsdm /\ RenderInFrame)

\* C17: every read and write of cross-thread state happens while holding
\* m_mutex.  The step of swapBuffers that reads m_syncInterval for its
\* Present is the render thread's, so it is never taken while the control
\* thread holds m_mutex.
PresentReadsIntervalUnderMutex ==
  [][gpu.presented' # gpu.presented => mutex # "control"]_vars

\* The render thread is between the start of renderFrame and the Present of
\* the same iteration: it records the frame, or is about to present it.
BeforePresent == rpc = "rf_record" \/ (rpc = "swapBuffers" /\ ~rt.m_skipNextSwap)

\* C18: requests take effect only at iteration boundaries.  Between the start
\* of renderFrame and the Present of the same iteration no step changes the
\* display mode, the stereo configuration or m_presentBarrierJoined.
RequestsOnlyAtBoundaries ==
  [][BeforePresent
       => /\ rt.m_displayMode' = rt.m_displayMode
          /\ rt.m_config.m_stereo' = rt.m_config.m_stereo
          /\ rt.m_presentBarrierJoined' = rt.m_presentBarrierJoined]_vars

\* The parameters of the swapResize call in progress are those of the swap
\* chain as it is, and force is unset.
ResizeArgsUnchanged ==
  /\ ~loc.resizeArgs.force
  /\ rt.m_swapChain
  /\ loc.resizeArgs.size = gpu.size
  /\ loc.resizeArgs.stereo = rt.m_config.m_stereo

\* C19: swapResize on an existing swap chain with force unset and width,
\* height and stereo equal to the current values changes nothing.  The step
\* of the render thread that makes the call returns from it (no wait of a
\* drain), with no event registered,
\* the back buffers, the swap chain and the present barrier client as they
\* were, and no present barrier call issued.
UnchangedSwapResizeIsNoOp ==
  [][(rpc = "resize_call" /\ rpc' # rpc /\ ResizeArgsUnchanged)
       => rt' = rt /\ gpu' = gpu /\ rpc' = "sb_stereo"]_vars

\* swapResize returned early while frames were outstanding on the GPU and the
\* current back buffer was not the first: a drain would have waited, a
\* resize would have reset the back buffer index.
ResizeReturnedEarlyUndrained ==
  /\ rpc = "sb_stereo"
  /\ loc.resizeEarly
  /\ gpu.completed < rt.m_frameIdx
  /\ gpu.backBufferIndex # 0

\* C20: when the output containing the window cannot be resolved,
\* trySetDisplayMode abandons the transition.  The step of swapBuffers whose
\* trySetDisplayMode returns for that reason leaves the display mode and
\* every other member as they were, except that m_requestedDisplayMode is
\* reset to the current mode; nothing behind the GPU and window handles
\* changes (no event registered for a drain, no resize, no window callback),
\* and the iteration ends.
UnresolvedOutputAbandons ==
  [][(/\ rpc = "sb_requests"
      /\ rpc' # rpc
      /\ ~rt.m_presentBarrierChangeRequested
      /\ loc.outputUnresolved')
       => /\ rt' = [rt EXCEPT !.m_requestedDisplayMode = rt.m_displayMode]
          /\ gpu' = gpu
          /\ rpc' = "loop"]_vars

\* swapBuffers abandoned a transition to FULLSCREEN or BORDERLESS while a
\* frame was outstanding on the GPU.
TransitionAbandoned ==
  /\ rpc = "loop"
  /\ cpc = "think"
  /\ loc.outputUnresolved
  /\ gpu.presented # <<>>
  /\ gpu.completed < rt.m_frameIdx
  /\ rt.m_displayMode = "WINDOWED"
  /\ rt.m_requestedDisplayMode = "WINDOWED"

\* C21: round trip.  With fullscreen transitions only, a window that is in
\* WINDOWED mode is either in its first WINDOWED period or back from
\* FULLSCREEN, so the position, size and decoration requested from the
\* window owner are those the window had before the first transition.
WindowedRoundTripRestores ==
  (InitFinished /\ rt.m_displayMode = "WINDOWED" /\ ~gpu.fullscreen)
    => gpu.geometry = InitGpu.geometry /\ gpu.decorated = InitGpu.decorated

\* C22: the two display mode requests are mutually exclusive toggles on the
\* requested mode.  In every state requestBorderlessStateChange flips
\* m_requestedDisplayMode between WINDOWED and BORDERLESS and leaves
\* FULLSCREEN, requestFullscreenStateChange flips it between WINDOWED and
\* FULLSCREEN and leaves BORDERLESS, neither changes anything else, and the
\* same request twice restores the requested mode.
DisplayModeRequestsToggle ==
  LET r == rt.m_requestedDisplayMode
      b == requestBorderlessStateChange(W)
      f == requestFullscreenStateChange(W)
  IN /\ b.rt.m_requestedDisplayMode =
          CASE r = "WINDOWED" -> "BORDERLESS"
            [] r = "BORDERLESS" -> "WINDOWED"
            [] r = "FULLSCREEN" -> "FULLSCREEN"
     /\ f.rt.m_requestedDisplayMode =
          CASE r = "WINDOWED" -> "FULLSCREEN"
            [] r = "FULLSCREEN" -> "WINDOWED"
            [] r = "BORDERLESS" -> "BORDERLESS"
     /\ b = [W EXCEPT !.rt.m_requestedDisplayMode = b.rt.m_requestedDisplayMode]
     /\ f = [W EXCEPT !.rt.m_requestedDisplayMode = f.rt.m_requestedDisplayMode]
     /\ requestBorderlessStateChange(b) = W
     /\ requestFullscreenStateChange(f) = W

\* A fullscreen request is pending on a windowed display: a borderless
\* request now is ignored.
FullscreenRequestPending ==
  /\ cpc = "think"
  /\ rt.m_requestedDisplayMode = "FULLSCREEN"
  /\ rt.m_displayMode = "WINDOWED"
  /\ gpu.presented # <<>>

\* C23: with AFR enabled and N execution nodes, a resized surface has
\* per-slot count x N presentable images, every image is bound to exactly one
\* node, image i (from 0) is bound to node i mod N, and no resource belongs to
\* two nodes.
AfrImagesRoundRobin ==
  LET a == gpu.afr
      N == a.nodeCount
  IN (a.afr /\ a.images # <<>>)
       => /\ Len(a.images) = D3D12_SWAP_CHAIN_SIZE * N
          /\ \A i \in 1..Len(a.images) : AfrNodesOf(a.images[i]) = {(i - 1) % N}
          /\ \A n, m \in 0..(MaxNodes - 1) :
               n # m => a.nodeResources[n] \cap a.nodeResources[m] = {}

\* Two nodes with AFR, and frames have run on both.
AfrTwoNodesInUse ==
  /\ gpu.afr.afr
  /\ gpu.afr.nodeCount = 2
  /\ Len(gpu.afr.images) = 2 * D3D12_SWAP_CHAIN_SIZE
  /\ gpu.afr.nodeResources[0] # {}
  /\ gpu.afr.nodeResources[1] # {}

\* C24: with the protocol enabled, the step of swapBuffers that finishes
\* servicing a pending barrier change leaves the joined state the negation of
\* what it was when servicing began, has called forcePresentBarrierChange
\* exactly when its sync() forced no leave, has cleared the request flag and
\* leaves no waiter unnotified.
ServicingTogglesOnce ==
  [][(/\ rpc \in {"sb_requests", "sb_req_wait"}
      /\ rpc' = "loop"
      /\ rt.m_presentBarrierChangeRequested
      /\ ~rt.m_config.m_disablePresentBarrier)
       => /\ rt'.m_presentBarrierJoined =
               ~(IF rpc = "sb_requests" THEN rt.m_presentBarrierJoined ELSE loc.before)
          /\ loc'.ackForced = ~loc'.drainLeft
          /\ ~rt'.m_presentBarrierChangeRequested
          /\ loc'.reqWake # "waiting"]_vars

\* C25: with the protocol enabled forcePresentBarrierChange toggles
\* unconditionally.  In every state one call joins when not joined and
\* leaves when joined and changes no other member, and a second call gives
\* back the RenderThread the first one started from.
ForceChangeJoinsAndLeaves ==
  ~rt.m_config.m_disablePresentBarrier
    => LET once == forcePresentBarrierChange(W)
           twice == forcePresentBarrierChange(once)
       IN /\ once.rt = [rt EXCEPT !.m_presentBarrierJoined = ~rt.m_presentBarrierJoined]
          /\ once.gpu.pbIssued
          /\ twice.rt = rt

\* The servicing in swapBuffers has just joined by forcePresentBarrierChange
\* with the protocol enabled.
JoinedByServicing ==
  /\ ~rt.m_config.m_disablePresentBarrier
  /\ rpc = "loop"
  /\ loc.ackForced
  /\ rt.m_presentBarrierJoined

\* The render thread is in a fence wait: the backpressure wait of
\* renderFrame or the wait of a sync().
InFenceWait ==
  rpc \in {"rf_wait", "sb_stereo_wait", "sb_tsdm_sync1", "sb_tsdm_sync2",
           "sb_req_wait", "drain_wait", "resize_wait"}

\* C26: whenever a fence wait timed out while the present barrier was
\* joined, the frame is skipped and the barrier has been left before a fence
\* wait is attempted again: no fence wait begins or goes on with the barrier
\* still joined since the timeout.
TimeoutLeavesBeforeRetry ==
  /\ InFenceWait => ~loc.timedOutJoined
  /\ (rpc = "swapBuffers" /\ loc.timedOutJoined) => rt.m_skipNextSwap

\* C27: timeout recovery in sync() is bounded.  A top-level call of sync()
\* re-enters itself at most once, so it is never in a third fence wait.
SyncWaitsAtMostTwice == loc.syncWaits <= 2

\* C28: after a skipped iteration the next renderFrame is on the back
\* buffer slot of the skipped one and has the fence value of the skipped one
\* to wait for, whatever the swapBuffers call in between serviced.
SkipRetriesSameSlot ==
  [][(rpc = "renderFrame" /\ rt.m_skipNextSwap /\ rpc' # rpc)
       => /\ gpu.backBufferIndex = loc.skipped.slot
          /\ rt.m_allocatorFrameIndices[CurrentSlot(W)] = loc.skipped.value]_vars

\* C29: overlay ordering on the GPU queue.  The main command list of a
\* frame is executed only when the overlay fence has reached the frame's
\* value m_frameIdx + 1, the overlay command list only when the frame fence
\* has reached the previous frame's value m_frameIdx, and every value queued
\* for the overlay fence is larger than the one queued before.
OverlayOrdering ==
  [][/\ (gpu.queue # <<>> /\ gpu'.queue = Tail(gpu.queue)
           /\ Head(gpu.queue).op = "Execute")
        => IF Head(gpu.queue).on = "m_graphicsCommandList"
           THEN gpu.guiCompleted >= Head(gpu.queue).value
           ELSE gpu.completed >= Head(gpu.queue).value - 1
     /\ gpu'.guiSignalled # gpu.guiSignalled
        => gpu'.guiSignalled > gpu.guiSignalled]_vars

\* The GPU is about to execute the main command list of the second frame.
MainListOfSecondFrameNext ==
  /\ gpu.queue # <<>>
  /\ Head(gpu.queue) = Cmd("Execute", "m_graphicsCommandList", 2)
  /\ gpu.guiCompleted = 2
  /\ gpu.completed = 1

\* The swap chain's fullscreen state agrees with the tracked display mode.
FullscreenAgrees == gpu.fullscreen = (rt.m_displayMode = "FULLSCREEN")

\* C30: trySetDisplayMode(m) is a no-op when m is the tracked display mode
\* and the swap chain's fullscreen state agrees with it: it returns
\* m_displayMode without a sync(), a swapResize or a window callback; so the
\* call swapBuffers makes in every iteration changes nothing of the
\* RenderThread and nothing behind the GPU and window handles when nothing
\* is requested.
TsdmCurrentModeIsNoOp ==
  [][FullscreenAgrees
       => /\ \A outputOk \in BOOLEAN :
               LET t == TsdmStart(W, rt.m_displayMode, outputOk)
               IN /\ t.block = "done"
                  /\ t.w.rt = rt
                  /\ t.w.gpu = gpu
                  /\ t.w.loc.syncWaits = loc.syncWaits
          /\ (/\ rpc = "sb_requests"
              /\ rpc' # rpc
              /\ rt.m_requestedDisplayMode = rt.m_displayMode
              /\ ~rt.m_presentBarrierChangeRequested)
               => rt' = rt /\ gpu' = gpu /\ rpc' = "loop"]_vars

\* A frame was presented in fullscreen mode and the swapBuffers after it had
\* nothing to service.
FullscreenIterationDone ==
  /\ rpc = "loop"
  /\ rt.m_displayMode = "FULLSCREEN"
  /\ rt.m_requestedDisplayMode = "FULLSCREEN"
  /\ gpu.fullscreen
  /\ Len(gpu.presented) = 2
  /\ gpu.completed < rt.m_frameIdx

\* trySetDisplayMode is entered while the swap chain's fullscreen state
\* disagrees with the tracked display mode.
DesyncAtEntry ==
  /\ rpc = "sb_requests"
  /\ gpu.fullscreen # (rt.m_displayMode = "FULLSCREEN")

\* C31: when trySetDisplayMode finds that the swap chain's fullscreen state
\* disagrees with m_displayMode, the mode it goes on with is WINDOWED
\* whatever was requested: the call either leaves m_displayMode alone, or
\* sets it to WINDOWED, and a call that blocks in sync() carries WINDOWED
\* as the mode to apply and applies exactly that mode when the wait ends.
DesyncAppliesWindowed ==
  [][/\ (DesyncAtEntry /\ rpc' # rpc)
          => /\ rt'.m_displayMode \in {rt.m_displayMode, "WINDOWED"}
             /\ rpc' = "sb_tsdm_sync1" => loc'.displayMode = "WINDOWED"
     /\ (rpc = "sb_tsdm_sync1" /\ rt'.m_displayMode # rt.m_displayMode)
          => rt'.m_displayMode = loc.displayMode]_vars

\* A fullscreen request is being serviced on a display tracked as BORDERLESS
\* whose swap chain is in exclusive fullscreen: the call is waiting in sync()
\* with WINDOWED as the mode to apply.
DesyncOverridesRequest ==
  /\ rpc = "sb_tsdm_sync1"
  /\ rt.m_displayMode = "BORDERLESS"
  /\ rt.m_requestedDisplayMode = "FULLSCREEN"
  /\ loc.displayMode = "WINDOWED"

\* C32: m_syncEvt never yields a false completion.  Whenever the
\* backpressure wait of renderFrame returns WAIT_OBJECT_0 the frame fence
\* has reached the index recorded for the current slot, and whenever the
\* wait of sync() returns WAIT_OBJECT_0 the frame fence has reached
\* m_frameIdx, also after earlier waits timed out.
SyncEvtNoFalseCompletion ==
  [][/\ (rpc = "rf_wait" /\ rpc' = "rf_record")
          => gpu.completed >= loc.waitForFrameIdx
     /\ (loc.syncWaits > 0 /\ loc'.syncWaits = 0 /\ gpu.syncEvt)
          => gpu.completed >= rt.m_frameIdx]_vars

\* C33: one press of the T key changes the joined state exactly once in
\* total.  When the control thread's fallback calls
\* forcePresentBarrierChange, the render thread has not serviced the request
\* of this press, and no request is left pending for it to service
\* afterwards.
PressChangesOnce ==
  [][CtlForceStep
       => /\ ~loc.reqServiced
          /\ ~rt'.m_presentBarrierChangeRequested]_vars

\* The render thread is about to present the last frame the model follows.
AtFrameBound ==
  /\ rpc = "swapBuffers"
  /\ ~rt.m_skipNextSwap
  /\ rt.m_frameIdx >= MaxFrames

\* C34: while the render thread is RUNNING, every pending barrier change
\* request is eventually serviced: m_presentBarrierChangeRequested becomes
\* false with no waiter left unnotified, on presenting and on skipped
\* iterations alike, unless the thread is paused or interrupted first.
RequestEventuallyServiced ==
  (rt.m_presentBarrierChangeRequested /\ rt.m_status = "RUNNING")
    ~> \/ ~rt.m_presentBarrierChangeRequested /\ loc.reqWake # "waiting"
       \/ rt.m_status # "RUNNING"
       \/ AtFrameBound

\* A request has just been serviced on an iteration that skipped its frame.
ServicedOnSkippedIteration ==
  /\ rpc = "loop"
  /\ rt.m_skipNextSwap
  /\ loc.reqServiced
  /\ ~rt.m_presentBarrierChangeRequested
  /\ rt.m_status = "RUNNING"

\* interruptAndJoin has been called and has not returned.
InInterruptAndJoin == cpc \in {"ij_tsdm_sync1", "ij_tsdm_sync2", "join"}

\* C35: after a successful start, interruptAndJoin eventually returns from
\* every state: running or paused, requests pending, and a frame fence that
\* never signals (so that no more than D3D12_SWAP_CHAIN_SIZE frames get
\* presented and every wait runs into its timeout).  The render thread
\* wakes from its pause, observes INTERRUPTED, leaves the loop, and sync()
\* and end() complete, so that m_thread.join() returns.
InterruptAndJoinReturns ==
  /\ InInterruptAndJoin ~> (cpc = "done")
  /\ [](cpc = "done" => rpc = "exited" /\ gpu.resources = {})
  /\ [](rt.m_frameIdx <= D3D12_SWAP_CHAIN_SIZE)

\* interruptAndJoin has returned on a render thread that had presented a
\* full swap chain of frames to a GPU that completed none of them, was
\* skipping frames, and had a present barrier change pending.
JoinedWhileStalledAndPending ==
  /\ cpc = "done"
  /\ rpc = "exited"
  /\ gpu.completed = 0
  /\ rt.m_frameIdx = D3D12_SWAP_CHAIN_SIZE
  /\ rt.m_skipNextSwap
  /\ rt.m_presentBarrierChangeRequested

\* Positions of the render thread whose next step locks
\* RenderThread::m_mutex.
RenderLockPcs == {"init", "loop", "waitIfPaused", "renderFrame", "sb_stereo", "sb_requests"}

\* The render thread cannot go on by itself: it waits for
\* RenderThread::m_mutex held by the control thread, for m_conVar in
\* waitIfPaused, or, inside trySetDisplayMode, for Sample::m_mutex held by
\* the control thread.
RenderBlocked ==
  \/ rpc \in RenderLockPcs /\ mutex = "control"
  \/ rpc = "waitIfPaused" /\ rt.m_status = "PAUSED"
  \/ rpc \in {"sb_requests", "sb_tsdm_sync1"} /\ gpu.windowMutex = "control"

\* The control thread cannot go on by itself: a call into the RenderThread
\* or the return from a condition variable wait needs RenderThread::m_mutex
\* held by the render thread, start() waits for m_conVar, interruptAndJoin
\* waits in m_thread.join(), or a window callback needs Sample::m_mutex.
ControlBlocked ==
  \/ cpc \in {"think", "start_wait", "req_wait"} /\ mutex = "render"
  \/ cpc = "start_wait" /\ ~StartWaitDone(rt.m_status)
  \/ cpc = "join" /\ rpc # "exited"
  \/ cpc \in {"think", "ij_tsdm_sync1"} /\ gpu.windowMutex = "control"

\* C36: deadlock freedom.  RenderThread::m_mutex and Sample::m_mutex are
\* always acquired in the same order: the control thread never holds
\* RenderThread::m_mutex while it holds Sample::m_mutex on its own account
\* in Sample::think.  And there is no state in which the render thread and
\* the control thread are both blocked on a mutex, the condition variable
\* or the thread join.
DeadlockFree ==
  /\ gpu.windowMutex = "control" => mutex # "control"
  /\ ~(RenderBlocked /\ ControlBlocked)

\* The render thread holds RenderThread::m_mutex inside trySetDisplayMode,
\* on its way from fullscreen to the window callbacks, while the control
\* thread is inside the window block of Sample::think with Sample::m_mutex.
CallbackWaitsForThink ==
  /\ rpc = "sb_tsdm_sync1"
  /\ mutex = "render"
  /\ loc.displayMode = "WINDOWED"
  /\ gpu.syncEvt
  /\ gpu.windowMutex = "control"
  /\ cpc = "think_window"

\* C37: a fullscreen desync is always repaired.  After a call of
\* trySetDisplayMode that returns without an output resolution failure (here
\* the call of swapBuffers, when it runs from entry to return within one
\* step, so that nothing else changes the swap chain meanwhile), the tracked
\* mode is FULLSCREEN if and only if the swap chain is in exclusive
\* fullscreen.
DesyncRepaired ==
  [][(/\ rpc = "sb_requests"
      /\ rpc' \in {"loop", "sb_req_wait"}
      /\ ~loc'.outputUnresolved)
       => (rt'.m_displayMode = "FULLSCREEN") = gpu'.fullscreen]_vars

\* C38: the current display mode never changes directly between BORDERLESS
\* and FULLSCREEN: every step that changes m_displayMode has WINDOWED as the
\* mode it leaves or as the mode it enters.
TransitionsThroughWindowed ==
  [][rt'.m_displayMode # rt.m_displayMode
       => rt.m_displayMode = "WINDOWED" \/ rt'.m_displayMode = "WINDOWED"]_vars

\* C39: changeSleepInterval(delta) never wraps.  For the current interval s
\* and every delta d, the interval after the call is the mathematical sum
\* s + d or the unchanged s, and it is the unchanged s whenever s + d is
\* negative.
SleepIntervalNeverWraps ==
  \A d \in SleepDeltas :
    LET s == rt.m_config.m_sleepIntervalInMilliseconds
        after == changeSleepInterval(W, d).rt.m_config.m_sleepIntervalInMilliseconds
        sum == WideAdd(s, d)
    IN /\ after = sum \/ after = s
       /\ sum.hi < 0 => after = s

====
